---- MODULE Spec2Model ----
(***************************************************************************)
(* The log-structured key-value engine of src/src/engines/kvs.rs           *)
(* (KvStore): an append-only log of serde_json encoded commands, an        *)
(* in-memory index key -> (pos, len), a redundancy counter, an index       *)
(* snapshot written by Drop, and clonable handles that share the state     *)
(* behind four mutexes.  One process at a time runs on the directory; a    *)
(* process ends by dropping every handle or by a crash.                    *)
(***************************************************************************)
EXTENDS Integers, Sequences, FiniteSets, TLC

\* ---------------------------------------------------------------- bounds
MaxCalls == 3       \* engine calls issued on the directory, two handles
MaxSeqCalls == 4    \* engine calls issued on the directory, one handle
MaxSessions == 2    \* processes started on the directory
MaxWorkers == 2     \* threads a SharedQueueThreadPool is created with
MaxJobs == 3        \* jobs spawned into the pool
MaxStarts == 2      \* times kvs-server is started on the directory
MaxConns == 2       \* connections made to kvs-server
MaxLibCalls == 5
MaxLibSessions == 3  \* times the KvStore of lib.rs is opened
MaxDirCmds == 2     \* commands in the log of a directory found at open

\* ------------------------------------------------------ program constants
MaxKeyLen == 256                \* kvs.rs:153  check_length(&key, "key", 256)
MaxValueLen == 4096             \* kvs.rs:154  check_length(&value, "value", 1 << 12)
\* kvs.rs:17 has 1 << 20.  Every length of the model is a real byte count, so
\* the threshold is scaled down to 1 << 12 to let a bounded run reach it: one
\* superseded record with a 4096 byte value is then enough to trigger
\* log_compact, and records with short values never do.
REDUNDANCE_THRESHOLD == 4096
SetOverhead == 29   \* bytes of {"Set":{"key":"","value":""}}   (kvs.rs:278)
RmOverhead == 17    \* bytes of {"Rm":{"key":""}}               (kvs.rs:279)
BufCap == 8192      \* capacity of the BufWriter made by BufWriter::new (lib.rs:266)

Threads == {"t1", "t2"}          \* each thread owns one clone of the KvStore
ValidKeys == {"k1", "k2"}
Keys == ValidKeys \cup {"kbig"}
ValidValues == {"v1", "v2"}
Values == ValidValues \cup {"vbig"}
KeySeq == <<"k1", "k2">>         \* an enumeration of ValidKeys
NoVal == "-"

\* String::len() of the strings the model draws its inputs from: the shortest
\* ones, the longest ones set accepts, and one byte more.
StrLen(s) ==
  CASE s = "k1" -> 2
    [] s = "k2" -> 256
    [] s = "kbig" -> 257
    [] s = "v1" -> 2
    [] s = "v2" -> 4096
    [] s = "vbig" -> 4097
    [] s = "" -> 0
    [] s = "\n" -> 1
    [] s \in {"RM"} -> 2
    [] s \in {"SET", "GET", "FOO"} -> 3
    [] s \in {"SCAN"} -> 4

\* ------------------------------------------------------------ the codec
\* enum Command, serialised by serde_json (externally tagged, no whitespace).
SetCmd(k, v) == [t |-> "Set", key |-> k, value |-> v]
RmCmd(k) == [t |-> "Rm", key |-> k, value |-> NoVal]
\* n bytes that are not the encoding of whole commands (read_raw_in_pos of a
\* range that does not begin and end where commands do).
Raw(n) == [t |-> "Raw", key |-> NoVal, value |-> NoVal, n |-> n]

\* Length in bytes of serde_json::to_writer(cmd).
byte_len(cmd) ==
  IF cmd.t = "Set" THEN SetOverhead + StrLen(cmd.key) + StrLen(cmd.value)
  ELSE IF cmd.t = "Raw" THEN cmd.n
  ELSE RmOverhead + StrLen(cmd.key)

\* A file of the log is the sequence of the commands serialised into it, one
\* after the other with no separator; its bytes are addressed through byte_len.
RECURSIVE file_size(_)
file_size(f) == IF f = <<>> THEN 0 ELSE byte_len(Head(f)) + file_size(Tail(f))

\* Byte offset at which the i-th command of f begins.
offset_of(f, i) == file_size(SubSeq(f, 1, i - 1))

NoPos == [pos |-> -1, len |-> 0]        \* HashMap::get(..) = None
CommandPos(p, l) == [pos |-> p, len |-> l]

\* LogReader::read_in_pos: seek to pos, take(len), serde_json::from_reader.
\* take(len) yields the bytes of the range that the file has.  They decode to a
\* Command exactly when they are the whole encoding of one command: a shorter
\* range ends in an EOF error, a longer or shifted one in a syntax or
\* trailing-characters error.
read_in_pos(f, pos, len) ==
  LET avail == IF pos + len <= file_size(f) THEN len ELSE file_size(f) - pos
      hits == {i \in 1..Len(f) :
                 f[i].t # "Raw" /\ offset_of(f, i) = pos /\ byte_len(f[i]) = avail}
  IN IF hits = {} THEN [ok |-> FALSE, cmd |-> RmCmd(NoVal)]
     ELSE [ok |-> TRUE, cmd |-> f[CHOOSE i \in hits : TRUE]]

\* fn check_length(s, s_type, max_len_in_bytes)
check_length_strict(s, s_type, max_len_in_bytes) ==
  IF StrLen(s) < max_len_in_bytes THEN "Ok"
  ELSE IF s_type = "key" THEN "InvalidKeySize" ELSE "InvalidValueSize"

check_length(s, s_type, max_len_in_bytes) ==
  IF StrLen(s) <= max_len_in_bytes THEN "Ok"
  ELSE IF s_type = "key" THEN "InvalidKeySize" ELSE "InvalidValueSize"

\* ------------------------------------------------------------ the index
EmptyIndex == [k \in ValidKeys |-> NoPos]

\* Replay of KvStore::open: the stream deserializer yields the commands of the
\* log in file order with byte_offset() after each; Set inserts, Rm removes.
\* After bytes that are no command the stream yields one Err, which the loop
\* skips, and then None.
RECURSIVE replay(_, _, _)
replay(f, i, idx) ==
  IF i > Len(f) \/ f[i].t = "Raw" THEN idx
  ELSE LET cmd_pos == CommandPos(offset_of(f, i), offset_of(f, i + 1) - offset_of(f, i))
       IN replay(f, i + 1,
                 IF f[i].t = "Set" THEN [idx EXCEPT ![f[i].key] = cmd_pos]
                 ELSE [idx EXCEPT ![f[i].key] = NoPos])

\* The index file.  File::create leaves it empty; serde_json::to_writer writes
\* the map as one JSON object, modelled as its entries followed by the closing
\* brace.
NoFile == [exists |-> FALSE, entries |-> <<>>, closed |-> FALSE]
EmptyFile == [exists |-> TRUE, entries |-> <<>>, closed |-> FALSE]

\* serde_json::to_writer(index_writer, &index)
to_writer_unflushed(idx) ==
  LET live == SelectSeq(KeySeq, LAMBDA k : idx[k] # NoPos)
  IN [exists |-> TRUE,
      entries |-> [i \in 1..Len(live) |->
                     [key |-> live[i], pos |-> idx[live[i]].pos, len |-> idx[live[i]].len]],
      closed |-> FALSE]

to_writer(idx) ==
  LET live == SelectSeq(KeySeq, LAMBDA k : idx[k] # NoPos)
  IN [exists |-> TRUE,
      entries |-> [i \in 1..Len(live) |->
                     [key |-> live[i], pos |-> idx[live[i]].pos, len |-> idx[live[i]].len]],
      closed |-> TRUE]

\* Length in bytes of the index file: "{" and "}" around the entries
\* "key":{"pos":P,"len":L}, which commas separate.
snapshot_len(file) ==
  LET digits(n) == IF n < 10 THEN 1 ELSE IF n < 100 THEN 2 ELSE IF n < 1000 THEN 3
                   ELSE IF n < 10000 THEN 4 ELSE 5
      entry(e) == StrLen(e.key) + 18 + digits(e.pos) + digits(e.len)
      sum[i \in 0..Len(file.entries)] ==
        IF i = 0 THEN 0 ELSE sum[i - 1] + entry(file.entries[i]) + (IF i > 1 THEN 1 ELSE 0)
  IN IF ~file.exists \/ (file.entries = <<>> /\ ~file.closed) THEN 0
     ELSE 1 + sum[Len(file.entries)] + (IF file.closed THEN 1 ELSE 0)

\* File::create(index_path) of kvs.rs:122: the file is created or truncated.
file_create_no_truncate(file) == IF file.exists THEN file ELSE EmptyFile
file_create(file) == EmptyFile

\* What the file holds after a handle opened by File::create has written snap
\* from its offset 0: bytes of the file behind the end of snap stay, and the
\* file is then no JSON object.
write_from_start(file, snap) ==
  IF snapshot_len(file) <= snapshot_len(snap) THEN snap
  ELSE [snap EXCEPT !.closed = FALSE]

\* serde_json::from_reader(index_handle): Err unless the object is complete.
RECURSIVE from_entries(_, _)
from_entries(es, idx) ==
  IF es = <<>> THEN idx
  ELSE from_entries(Tail(es), [idx EXCEPT ![Head(es).key] = CommandPos(Head(es).pos, Head(es).len)])

from_reader(file) ==
  IF file.closed THEN [ok |-> TRUE, index |-> from_entries(file.entries, EmptyIndex)]
  ELSE [ok |-> FALSE, index |-> EmptyIndex]

\* ------------------------------------------------------------ results
R(kind, val, keys) == [kind |-> kind, val |-> val, keys |-> keys]
NoResult == R("none", NoVal, <<>>)

\* What KvStore::get computes from an index and the bytes of the log file.
get_result(idx, f, k) ==
  IF k \notin ValidKeys \/ idx[k] = NoPos THEN R("None", NoVal, <<>>)
  ELSE LET r == read_in_pos(f, idx[k].pos, idx[k].len)
       IN IF ~r.ok THEN R("DeserError", NoVal, <<>>)
          ELSE IF r.cmd.t = "Set" THEN R("Some", r.cmd.value, <<>>)
          ELSE R("KeyNotFound", NoVal, <<>>)

View(idx, f) == [k \in ValidKeys |-> get_result(idx, f, k)]

\* The sequences that list every element of S once (HashMap iteration order).
SeqsOf(S) ==
  {s \in [1..Cardinality(S) -> S] : \A x \in S : \E i \in 1..Cardinality(S) : s[i] = x}

LiveKeys(idx) == {k \in ValidKeys : idx[k] # NoPos}

\* ------------------------------------------------------------- the state
VARIABLES
  handles,          \* the threads that get a clone of the KvStore when it is opened
  phase,            \* "down": no process has the directory open; "up": one has
  log,              \* the file "log": the commands the OS holds
  wbuf,             \* LogWriter.writer: commands in the BufWriter, not yet written
  log_tmp,          \* the file "log.tmp" exists
  index_file,       \* the file "index"
  index,            \* KvStore.index
  redundance_bytes, \* KvStore.redundance_bytes
  lock,             \* holder of each Mutex
  pc,               \* where each thread is in the call it runs
  arg,              \* the call of each thread: op, key, value
  loc,              \* its locals: cmd_pos.pos, cmd_pos.len, old_cmd_pos.len; and
                    \* history: conc, another set of the same key was waiting
                    \* for logwriter when this set appended; before, the
                    \* index when a set or remove was called
  res,              \* what the call returned, while pc is "done"
  exp,              \* history: what the abstract map answered when the call took effect
  model,            \* history: abstract map of this process, key -> value
  truth,            \* history: per key, what the last call on it that returned Ok left
  ncalls,           \* calls issued so far
  nsess,            \* processes started
  open_res,         \* what the last KvStore::open returned
  last_end,         \* how the previous process ended: "none", "clean", "crash"
  prev_view,        \* history: the answers of get when the last handle was dropped
  pool,             \* SharedQueueThreadPool: its sender and the number of threads asked for
  queue,            \* the unbounded channel: jobs sent and not yet received
  workers,          \* the threads that own a JobReceiver
  jobs,             \* per job: sent, whether it panics, how often it was invoked
  server,           \* the kvs-server process: where it is, its engine, its exit status
  db_type,          \* the file "db.type"
  sled_db,          \* the sled Db of the directory
  conn,             \* the TCP connections made to the server
  ctrl_c_events,    \* notifications in the channel fed by the ctrlc handler
  lib               \* the KvStore of lib.rs (one owner, no locks) and its directory

vars == <<handles, phase, log, wbuf, log_tmp, index_file, index, redundance_bytes, lock, pc,
          arg, loc, res, exp, model, truth, ncalls, nsess, open_res, last_end, prev_view,
          pool, queue, workers, jobs, server, db_type, sled_db, conn, ctrl_c_events,
          lib>>

engine_vars == <<handles, phase, log, wbuf, log_tmp, index_file, index, redundance_bytes, lock,
                 pc, arg, loc, res, exp, model, truth, ncalls, nsess, open_res, last_end,
                 prev_view>>
pool_vars == <<pool, queue, workers, jobs>>
server_vars == <<server, db_type, sled_db, conn, ctrl_c_events>>
others == <<pool_vars, server_vars, lib>>

disk == <<log, log_tmp, index_file>>
history == <<model, truth, last_end, prev_view, handles, others>>

LockNames == {"index", "logwriter", "logreader", "redundance_bytes"}
AllFree == [l \in LockNames |-> "free"]
Free(l) == lock[l] = "free"
\* MutexGuard: taken by lock(), released when the guard goes out of scope.
Acquire(lk, t, ls) == [l \in LockNames |-> IF l \in ls THEN t ELSE lk[l]]
Release(lk, t, ls) == [l \in LockNames |-> IF l \in ls /\ lk[l] = t THEN "free" ELSE lk[l]]
HeldBy(t) == {l \in LockNames : lock[l] = t}

NoArg == [op |-> "none", key |-> NoVal, value |-> NoVal]
NoLoc == [pos |-> 0, len |-> 0, old |-> 0, conc |-> FALSE, before |-> EmptyIndex]
NoModel == [k \in ValidKeys |-> NoVal]
AbstractOf(view) == [k \in ValidKeys |-> IF view[k].kind = "Some" THEN view[k].val ELSE NoVal]
ViewOf(m) == [k \in ValidKeys |-> IF m[k] = NoVal THEN R("None", NoVal, <<>>)
                                  ELSE R("Some", m[k], <<>>)]

\* ------------------------------------------------- SharedQueueThreadPool
JobIds == 1..MaxJobs
\* Every panic of a job starts at most one more thread.
ThreadIds == 1..(MaxWorkers + MaxJobs)
NoWorker == [st |-> "none", job |-> 0]
NoJob == [sent |-> FALSE, panics |-> FALSE, runs |-> 0]

NoPool ==
  /\ pool = [sender |-> "none", threads |-> 0]
  /\ queue = <<>>
  /\ workers = [w \in ThreadIds |-> NoWorker]
  /\ jobs = [j \in JobIds |-> NoJob]

\* ------------------------------------------------------------ kvs-server
ConnIds == 1..MaxConns
NoType == [exists |-> FALSE, text |-> <<>>]
NoServer ==
  [pc |-> "off", engine |-> "none", code |-> -1, why |-> "none", sel |-> "none",
   found |-> NoType, overflow_checks |-> FALSE, starts |-> 0]
NoOut == [kind |-> "none", text |-> NoVal]
NoConn ==
  [st |-> "none", req |-> <<>>, reply |-> <<>>, err |-> "none", panicked |-> FALSE,
   resp |-> <<>>, after |-> {}, cmd |-> NoArg, res |-> NoResult, out |-> NoOut]

NoServerRun ==
  /\ server = NoServer
  /\ db_type = NoType
  /\ sled_db = [k \in Keys |-> NoVal]
  /\ conn = [c \in ConnIds |-> NoConn]
  /\ ctrl_c_events = 0

\* ------------------------------------------------- the KvStore of lib.rs
\* last: the last call, what it returned, whether it ran log_compact ("no",
\* "Ok", "Err") and, if it did, what get answered and which file held which
\* bytes right before log_compact was entered.  view: what get answered when
\* the last process ended.
NoLast ==
  [op |-> "none", key |-> NoVal, kind |-> "none", val |-> NoVal, lc |-> "no",
   pre |-> ViewOf(NoModel), again |-> FALSE]
NoLib ==
  [up |-> FALSE, has_log |-> FALSE, log |-> <<>>, has_tmp |-> FALSE, tmp |-> <<>>,
   active |-> "log", wbuf |-> <<>>, index |-> EmptyIndex, index_file |-> NoFile,
   redundance_bytes |-> 0, ncalls |-> 0, nsess |-> 0, last |-> NoLast,
   view |-> ViewOf(NoModel), end |-> "none"]

\* No process runs; the directory holds the log f and the index file snap.
InitOn(hs, f, snap) ==
  /\ handles = hs
  /\ phase = "down"
  /\ log = f
  /\ wbuf = <<>>
  /\ log_tmp = FALSE
  /\ index_file = snap
  /\ index = EmptyIndex
  /\ redundance_bytes = 0
  /\ lock = AllFree
  /\ pc = [t \in Threads |-> "down"]
  /\ arg = [t \in Threads |-> NoArg]
  /\ loc = [t \in Threads |-> NoLoc]
  /\ res = [t \in Threads |-> NoResult]
  /\ exp = [t \in Threads |-> NoResult]
  /\ model = NoModel
  /\ truth = NoModel
  /\ ncalls = 0
  /\ nsess = 0
  /\ open_res = "none"
  /\ last_end = "none"
  /\ prev_view = ViewOf(NoModel)
  /\ NoPool
  /\ NoServerRun
  /\ lib = NoLib

InitWith(hs) == InitOn(hs, <<>>, NoFile)

Init == InitWith(Threads)
InitSeq == InitWith({"t1"})

\* A directory the engine is opened on without having written it in this run (a
\* restored copy, files of another run): a log of at most MaxDirCmds commands and
\* either no index file or a snapshot whose entries are ranges of commands of
\* that log.
DirCmds == {SetCmd("k1", "v1"), SetCmd("k2", "v1"), RmCmd("k1")}
DirLogs == UNION {[1..n -> DirCmds] : n \in 0..MaxDirCmds}
DirIndexes(f) ==
  [ValidKeys -> {NoPos} \cup {CommandPos(offset_of(f, i), byte_len(f[i])) : i \in 1..Len(f)}]
DirSnapshots(f) == {NoFile} \cup {to_writer(idx) : idx \in DirIndexes(f)}

InitDir == \E f \in DirLogs : \E snap \in DirSnapshots(f) : InitOn({"t1"}, f, snap)

\* ------------------------------------------------------------------ open
\* KvStore::open (kvs.rs:35-84), followed by one clone of the handle per thread.
\* The log is opened with create(true); an index file that exists is loaded with
\* serde_json::from_reader(..)?, otherwise the index is rebuilt by replay.
open_index(file, f) ==
  IF file.exists THEN from_reader(file)
  ELSE [ok |-> TRUE, index |-> replay(f, 1, EmptyIndex)]

Open ==
  /\ phase = "down"
  /\ nsess < MaxSessions
  /\ nsess' = nsess + 1
  /\ LET r == open_index(index_file, log)
     IN IF r.ok
        THEN /\ phase' = "up"
             /\ index' = r.index
             /\ open_res' = "Ok"
             /\ pc' = [t \in Threads |-> IF t \in handles THEN "idle" ELSE "gone"]
             /\ model' = AbstractOf(View(r.index, log))
        ELSE /\ open_res' = "DeserError"
             /\ UNCHANGED <<phase, index, pc, model>>
  /\ redundance_bytes' = 0
  /\ wbuf' = <<>>
  /\ lock' = AllFree
  /\ arg' = [t \in Threads |-> NoArg]
  /\ loc' = [t \in Threads |-> NoLoc]
  /\ res' = [t \in Threads |-> NoResult]
  /\ exp' = [t \in Threads |-> NoResult]
  /\ UNCHANGED <<disk, truth, last_end, prev_view, ncalls, handles, others>>

Idle(t) == phase = "up" /\ pc[t] = "idle"
MayCall(t) == Idle(t) /\ ncalls < (IF handles = Threads THEN MaxCalls ELSE MaxSeqCalls)

Begin(t, op, k, v, at) ==
  /\ arg' = [arg EXCEPT ![t] = [op |-> op, key |-> k, value |-> v]]
  /\ loc' = [loc EXCEPT ![t] = IF op = "remove" THEN [NoLoc EXCEPT !.before = index]
                                ELSE NoLoc]
  /\ res' = [res EXCEPT ![t] = NoResult]
  /\ exp' = [exp EXCEPT ![t] = NoResult]
  /\ pc' = [pc EXCEPT ![t] = at]
  /\ ncalls' = ncalls + 1

Flushed == log \o wbuf      \* BufWriter::flush / the flush made by BufWriter::seek

\* ------------------------------------------------------------------- set
\* kvs.rs:152-178.  check_length of the key, then of the value, before any I/O.
set_validate_value_only(k, v) == check_length(v, "value", MaxValueLen)

set_validate(k, v) ==
  IF check_length(k, "key", MaxKeyLen) # "Ok" THEN check_length(k, "key", MaxKeyLen)
  ELSE check_length(v, "value", MaxValueLen)

\* kvs.rs:153-154: an Err of check_length is returned by the `?` at once.
CallSet(t, k, v) ==
  /\ MayCall(t)
  /\ arg' = [arg EXCEPT ![t] = [op |-> "set", key |-> k, value |-> v]]
  /\ loc' = [loc EXCEPT ![t] = [NoLoc EXCEPT !.before = index]]
  /\ exp' = [exp EXCEPT ![t] = NoResult]
  /\ ncalls' = ncalls + 1
  /\ IF set_validate(k, v) = "Ok"
     THEN /\ pc' = [pc EXCEPT ![t] = "set_append"]
          /\ res' = [res EXCEPT ![t] = NoResult]
     ELSE /\ pc' = [pc EXCEPT ![t] = "done"]
          /\ res' = [res EXCEPT ![t] = R(set_validate(k, v), NoVal, <<>>)]
  /\ UNCHANGED <<phase, disk, wbuf, index, redundance_bytes, lock, history, nsess, open_res>>

\* kvs.rs:160-163: cmd_pos = { pos: cmd_head_pos, len: seek(End(0)) - cmd_head_pos }
set_cmd_pos_no_head(head, end) == CommandPos(0, end - head)
set_cmd_pos(head, end) == CommandPos(head, end - head)

\* kvs.rs:157: the guard `logwriter` lives until set returns.
set_writer_guard_temporary(t) == lock
set_writer_guard(t) == Acquire(lock, t, {"logwriter"})

\* kvs.rs:157-163.  LogWriter::write seeks to the end (BufWriter::seek flushes
\* what is buffered) and serialises the command into the buffer; the seek of
\* line 162 flushes it to the file, which was opened with append(true).
SetAppend(t) ==
  /\ phase = "up" /\ pc[t] = "set_append"
  /\ Free("logwriter")
  /\ LET head == file_size(Flushed)
         f == Append(Flushed, SetCmd(arg[t].key, arg[t].value))
     IN /\ log' = f
        /\ wbuf' = <<>>
        /\ loc' = [loc EXCEPT ![t] =
                     [pos |-> set_cmd_pos(head, file_size(f)).pos,
                      len |-> set_cmd_pos(head, file_size(f)).len,
                      old |-> 0,
                      conc |-> \E u \in Threads \ {t} :
                                 pc[u] = "set_append" /\ arg[u].key = arg[t].key,
                      before |-> loc[t].before]]
  /\ lock' = set_writer_guard(t)
  /\ pc' = [pc EXCEPT ![t] = "set_lock_red"]
  /\ UNCHANGED <<phase, log_tmp, index_file, index, redundance_bytes, arg, res, exp,
                 history, ncalls, nsess, open_res>>

\* kvs.rs:166: redundance_bytes.lock(), held until set returns.
SetLockRedundance(t) ==
  /\ phase = "up" /\ pc[t] = "set_lock_red"
  /\ Free("redundance_bytes")
  /\ lock' = Acquire(lock, t, {"redundance_bytes"})
  /\ pc' = [pc EXCEPT ![t] = "set_insert"]
  /\ UNCHANGED <<phase, disk, wbuf, index, redundance_bytes, arg, loc, res, exp,
                 history, ncalls, nsess, open_res>>

\* kvs.rs:167-171: index.lock().insert(key, cmd_pos); the guard is a temporary of
\* the `if let` and is released at its end.
SetInsert(t) ==
  /\ phase = "up" /\ pc[t] = "set_insert"
  /\ Free("index")
  /\ LET k == arg[t].key
         old_pos == index[k]
     IN /\ index' = [index EXCEPT ![k] = CommandPos(loc[t].pos, loc[t].len)]
        /\ redundance_bytes' =
             IF old_pos # NoPos THEN redundance_bytes + old_pos.len ELSE redundance_bytes
        /\ model' = [model EXCEPT ![k] = arg[t].value]
  /\ pc' = [pc EXCEPT ![t] = "set_check"]
  /\ UNCHANGED <<phase, disk, wbuf, lock, arg, loc, res, exp, truth, last_end, prev_view,
                 ncalls, nsess, open_res, handles, others>>

\* kvs.rs:173-177: below the threshold set returns Ok and its guards are dropped;
\* at or above it set calls log_compact with both guards still alive.  truth
\* follows the order of the index updates: a remove of the key that took the
\* entry out after this set's insert is the later operation on the key.
SetCheck(t) ==
  /\ phase = "up" /\ pc[t] = "set_check"
  /\ IF redundance_bytes >= REDUNDANCE_THRESHOLD
     THEN /\ pc' = [pc EXCEPT ![t] = "lc_flush"]
          /\ UNCHANGED <<lock, res, truth>>
     ELSE /\ pc' = [pc EXCEPT ![t] = "done"]
          /\ lock' = Release(lock, t, {"logwriter", "redundance_bytes"})
          /\ res' = [res EXCEPT ![t] = R("Ok", NoVal, <<>>)]
          /\ truth' = [truth EXCEPT ![arg[t].key] = model[arg[t].key]]
  /\ UNCHANGED <<phase, disk, wbuf, index, redundance_bytes, arg, loc, exp, model,
                 last_end, prev_view, ncalls, nsess, open_res, handles, others>>

\* ------------------------------------------------------------------- get
CallGet(t, k) ==
  /\ MayCall(t)
  /\ Begin(t, "get", k, NoVal, "get_flush")
  /\ UNCHANGED <<phase, disk, wbuf, index, redundance_bytes, lock, history, nsess, open_res>>

\* kvs.rs:200: logwriter.lock().flush(); the guard is dropped with the statement.
GetFlush(t) ==
  /\ phase = "up" /\ pc[t] = "get_flush"
  /\ Free("logwriter")
  /\ log' = Flushed
  /\ wbuf' = <<>>
  /\ pc' = [pc EXCEPT ![t] = "get_lookup"]
  /\ UNCHANGED <<phase, log_tmp, index_file, index, redundance_bytes, lock, arg, loc, res,
                 exp, history, ncalls, nsess, open_res>>

\* The answer of the abstract map to get(k).
model_get(m, k) ==
  IF k \in ValidKeys /\ m[k] # NoVal THEN R("Some", m[k], <<>>) ELSE R("None", NoVal, <<>>)

\* kvs.rs:202-210.  The index guard is a temporary of the `if let` and is held
\* while logreader is locked and read_in_pos runs; logreader is only ever locked
\* by a thread that holds the index guard, so both are taken and dropped here.
GetLookup(t) ==
  /\ phase = "up" /\ pc[t] = "get_lookup"
  /\ Free("index") /\ Free("logreader")
  /\ res' = [res EXCEPT ![t] = get_result(index, log, arg[t].key)]
  /\ exp' = [exp EXCEPT ![t] = model_get(model, arg[t].key)]
  /\ pc' = [pc EXCEPT ![t] = "done"]
  /\ UNCHANGED <<phase, disk, wbuf, index, redundance_bytes, lock, arg, loc,
                 history, ncalls, nsess, open_res>>

\* ------------------------------------------------------------------ scan
CallScan(t) ==
  /\ MayCall(t)
  /\ Begin(t, "scan", NoVal, NoVal, "scan_keys")
  /\ UNCHANGED <<phase, disk, wbuf, index, redundance_bytes, lock, history, nsess, open_res>>

\* kvs.rs:271-273: index.lock().keys().cloned(), in the map's iteration order.
scan_keys(idx) == SeqsOf(LiveKeys(idx))

ScanKeys(t) ==
  /\ phase = "up" /\ pc[t] = "scan_keys"
  /\ Free("index")
  /\ \E ks \in scan_keys(index) : res' = [res EXCEPT ![t] = R("Keys", NoVal, ks)]
  /\ exp' = [exp EXCEPT ![t] =
               R("Keys", NoVal, SelectSeq(KeySeq, LAMBDA k : model[k] # NoVal))]
  /\ pc' = [pc EXCEPT ![t] = "done"]
  /\ UNCHANGED <<phase, disk, wbuf, index, redundance_bytes, lock, arg, loc,
                 history, ncalls, nsess, open_res>>

\* ---------------------------------------------------------------- remove
CallRemove(t, k) ==
  /\ MayCall(t)
  /\ Begin(t, "remove", k, NoVal, "rm_lookup")
  /\ UNCHANGED <<phase, disk, wbuf, index, redundance_bytes, lock, history, nsess, open_res>>

\* The answer of the abstract map to remove(k).
model_remove(m, k) ==
  IF k \in ValidKeys /\ m[k] # NoVal THEN R("Ok", NoVal, <<>>) ELSE R("KeyNotFound", NoVal, <<>>)

\* HashMap::remove(&key) of kvs.rs:233.
index_remove_kept(idx, k) == idx
index_remove(idx, k) == [idx EXCEPT ![k] = NoPos]

\* kvs.rs:233 and 248-250: index.lock().remove(&key).  The guard is a temporary
\* of the `if let`: it is held until remove returns, through either branch.
RmLookup(t) ==
  /\ phase = "up" /\ pc[t] = "rm_lookup"
  /\ Free("index")
  /\ exp' = [exp EXCEPT ![t] = model_remove(model, arg[t].key)]
  /\ LET k == arg[t].key
     IN IF k \in ValidKeys /\ index[k] # NoPos
        THEN /\ index' = index_remove(index, k)
             /\ loc' = [loc EXCEPT ![t].old = index[k].len]
             /\ model' = [model EXCEPT ![k] = NoVal]
             /\ lock' = Acquire(lock, t, {"index"})
             /\ pc' = [pc EXCEPT ![t] = "rm_write"]
             /\ UNCHANGED res
        ELSE /\ res' = [res EXCEPT ![t] = R("KeyNotFound", NoVal, <<>>)]
             /\ pc' = [pc EXCEPT ![t] = "done"]
             /\ UNCHANGED <<index, loc, model, lock>>
  /\ UNCHANGED <<phase, disk, wbuf, redundance_bytes, arg, truth, last_end, prev_view,
                 ncalls, nsess, open_res, handles, others>>

\* kvs.rs:235: logwriter.lock().write(&cmd); the guard is dropped with the
\* statement and the Rm command stays in the BufWriter.
RmWrite(t) ==
  /\ phase = "up" /\ pc[t] = "rm_write"
  /\ Free("logwriter")
  /\ log' = Flushed
  /\ wbuf' = <<RmCmd(arg[t].key)>>
  /\ loc' = [loc EXCEPT ![t].pos = file_size(Flushed)]
  /\ pc' = [pc EXCEPT ![t] = "rm_seek"]
  /\ UNCHANGED <<phase, log_tmp, index_file, index, redundance_bytes, lock, arg, res, exp,
                 history, ncalls, nsess, open_res>>

\* kvs.rs:237-240: logwriter.lock() again; len = seek(End(0)) - cmd_head_pos.
RmSeek(t) ==
  /\ phase = "up" /\ pc[t] = "rm_seek"
  /\ Free("logwriter")
  /\ log' = Flushed
  /\ wbuf' = <<>>
  /\ loc' = [loc EXCEPT ![t].len = file_size(Flushed) - loc[t].pos]
  /\ pc' = [pc EXCEPT ![t] = "rm_account"]
  /\ UNCHANGED <<phase, log_tmp, index_file, index, redundance_bytes, lock, arg, res, exp,
                 history, ncalls, nsess, open_res>>

\* kvs.rs:242-247: redundance_bytes.lock(); add both lengths; below the threshold
\* remove returns Ok, otherwise it calls log_compact holding the index guard and
\* the redundance_bytes guard.
RmAccount(t) ==
  /\ phase = "up" /\ pc[t] = "rm_account"
  /\ Free("redundance_bytes")
  /\ redundance_bytes' = redundance_bytes + loc[t].old + loc[t].len
  /\ IF redundance_bytes' >= REDUNDANCE_THRESHOLD
     THEN /\ lock' = Acquire(lock, t, {"redundance_bytes"})
          /\ pc' = [pc EXCEPT ![t] = "lc_flush"]
          /\ UNCHANGED <<res, truth>>
     ELSE /\ lock' = Release(lock, t, {"index"})
          /\ pc' = [pc EXCEPT ![t] = "done"]
          /\ res' = [res EXCEPT ![t] = R("Ok", NoVal, <<>>)]
          /\ truth' = [truth EXCEPT ![arg[t].key] = NoVal]
  /\ UNCHANGED <<phase, disk, wbuf, index, arg, loc, exp, model, last_end, prev_view,
                 ncalls, nsess, open_res, handles, others>>

\* ----------------------------------------------------------- log_compact
\* kvs.rs:87: self.logwriter.lock().flush().  std::sync::Mutex::lock does not
\* return when the calling thread already holds the mutex, which is the case
\* when set is the caller: the thread stays here.
LcFlush(t) ==
  /\ phase = "up" /\ pc[t] = "lc_flush"
  /\ Free("logwriter")
  /\ log' = Flushed
  /\ wbuf' = <<>>
  /\ pc' = [pc EXCEPT ![t] = "lc_create"]
  /\ UNCHANGED <<phase, log_tmp, index_file, index, redundance_bytes, lock, arg, loc, res,
                 exp, history, ncalls, nsess, open_res>>

\* kvs.rs:89-98: create_new(true) on log.tmp.  If the file exists the `?` returns
\* the io::Error to the caller, whose own `?` (kvs.rs:174, 245) returns it and
\* drops the guards.  Otherwise the new writer and reader are built and the
\* thread goes on to kvs.rs:101, self.index.lock(): the only caller that gets here
\* is remove, which holds the index guard, so the lock never returns and lines
\* 101-115 (copy, handle swap, remove_file, rename) are not executed.
LcCreate(t) ==
  /\ phase = "up" /\ pc[t] = "lc_create"
  /\ IF log_tmp
     THEN /\ res' = [res EXCEPT ![t] = R("IOError", NoVal, <<>>)]
          /\ lock' = Release(lock, t, LockNames)
          /\ pc' = [pc EXCEPT ![t] = "done"]
          /\ UNCHANGED log_tmp
     ELSE /\ log_tmp' = TRUE
          /\ pc' = [pc EXCEPT ![t] = "lc_copy"]
          /\ UNCHANGED <<res, lock>>
  /\ UNCHANGED <<phase, log, index_file, wbuf, index, redundance_bytes, arg, loc, exp,
                 history, ncalls, nsess, open_res>>

\* The caller takes the result; the thread is free for its next call.
Return(t) ==
  /\ phase = "up" /\ pc[t] = "done"
  /\ pc' = [pc EXCEPT ![t] = "idle"]
  /\ arg' = [arg EXCEPT ![t] = NoArg]
  /\ loc' = [loc EXCEPT ![t] = NoLoc]
  /\ res' = [res EXCEPT ![t] = NoResult]
  /\ exp' = [exp EXCEPT ![t] = NoResult]
  /\ UNCHANGED <<phase, disk, wbuf, index, redundance_bytes, lock, history, ncalls, nsess,
                 open_res>>

\* ------------------------------------------------------------------ drop
\* kvs.rs:122: File::create(index_path) creates or truncates the index file.
DropCreate(t) ==
  /\ Idle(t)
  /\ index_file' = file_create(index_file)
  /\ pc' = [pc EXCEPT ![t] = "drop_write"]
  /\ UNCHANGED <<phase, log, log_tmp, wbuf, index, redundance_bytes, lock, arg, loc, res,
                 exp, history, ncalls, nsess, open_res>>

\* kvs.rs:123: serde_json::to_writer(index_writer, index.lock()); the BufWriter is
\* flushed when to_writer drops it, before the index guard of the statement is
\* dropped.  Each dropping handle writes from offset 0 of the file, which other
\* handles may have truncated or written since.  When the last handle is gone
\* the process ends.
DropWrite(t) ==
  /\ phase = "up" /\ pc[t] = "drop_write"
  /\ Free("index")
  /\ index_file' = write_from_start(index_file, to_writer(index))
  /\ IF \A u \in Threads \ {t} : pc[u] = "gone"
     THEN /\ phase' = "down"
          /\ pc' = [u \in Threads |-> "down"]
          /\ last_end' = "clean"
          /\ prev_view' = View(index, log)
     ELSE /\ pc' = [pc EXCEPT ![t] = "gone"]
          /\ UNCHANGED <<phase, last_end, prev_view>>
  /\ UNCHANGED <<log, log_tmp, wbuf, index, redundance_bytes, lock, arg, loc, res, exp,
                 model, truth, ncalls, nsess, open_res, handles, others>>

\* ----------------------------------------------------------------- crash
\* The process dies: memory is lost, with it what the BufWriter holds; the files
\* stay as the OS has them.
Quiet == \A t \in Threads : pc[t] \in {"idle", "done", "gone"}

Crash ==
  /\ phase = "up"
  /\ phase' = "down"
  /\ pc' = [t \in Threads |-> "down"]
  /\ wbuf' = <<>>
  /\ lock' = AllFree
  /\ last_end' = IF Quiet THEN "crash" ELSE "crash_busy"
  /\ prev_view' = ViewOf(NoModel)
  /\ index' = EmptyIndex
  /\ redundance_bytes' = 0
  /\ arg' = [t \in Threads |-> NoArg]
  /\ loc' = [t \in Threads |-> NoLoc]
  /\ res' = [t \in Threads |-> NoResult]
  /\ exp' = [t \in Threads |-> NoResult]
  /\ model' = NoModel
  /\ UNCHANGED <<disk, truth, ncalls, nsess, open_res, handles, others>>

\* -------------------------------------------------------------- the system
Next ==
  \/ Open
  \/ Crash
  \/ \E t \in Threads :
       \/ \E k \in Keys, v \in Values : CallSet(t, k, v)
       \/ SetAppend(t) \/ SetLockRedundance(t) \/ SetInsert(t) \/ SetCheck(t)
       \/ \E k \in ValidKeys : CallGet(t, k)
       \/ GetFlush(t) \/ GetLookup(t)
       \/ CallScan(t) \/ ScanKeys(t)
       \/ \E k \in ValidKeys : CallRemove(t, k)
       \/ RmLookup(t) \/ RmWrite(t) \/ RmSeek(t) \/ RmAccount(t)
       \/ LcFlush(t) \/ LcCreate(t)
       \/ Return(t)
       \/ DropCreate(t) \/ DropWrite(t)

Spec == Init /\ [][Next]_vars

\* The same engine used through a single handle.
SpecSeq == InitSeq /\ [][Next]_vars

\* ------------------------------------------------------------ I/O errors
\* The writes of the log can fail.  A failed write leaves the file as it was;
\* what the BufWriter had taken before the failure stays in its buffer.

\* kvs.rs:158: logwriter.write(&cmd)? returns the error; set returns it and
\* drops its guard.
SetWriteFail(t) ==
  /\ phase = "up" /\ pc[t] = "set_append"
  /\ Free("logwriter")
  /\ res' = [res EXCEPT ![t] = R("IOError", NoVal, <<>>)]
  /\ pc' = [pc EXCEPT ![t] = "done"]
  /\ UNCHANGED <<phase, disk, wbuf, index, redundance_bytes, lock, arg, loc, exp,
                 history, ncalls, nsess, open_res>>

\* kvs.rs:162: the write succeeded into the buffer and the flush made by
\* seek(SeekFrom::End(0))? fails.
SetSeekFail(t) ==
  /\ phase = "up" /\ pc[t] = "set_append"
  /\ Free("logwriter")
  /\ log' = Flushed
  /\ wbuf' = <<SetCmd(arg[t].key, arg[t].value)>>
  /\ res' = [res EXCEPT ![t] = R("IOError", NoVal, <<>>)]
  /\ pc' = [pc EXCEPT ![t] = "done"]
  /\ UNCHANGED <<phase, log_tmp, index_file, index, redundance_bytes, lock, arg, loc, exp,
                 history, ncalls, nsess, open_res>>

\* kvs.rs:235: logwriter.lock().unwrap().write(&cmd)? returns the error; remove
\* returns it and the index guard of kvs.rs:233 is dropped.
RmWriteFail(t) ==
  /\ phase = "up" /\ pc[t] = "rm_write"
  /\ Free("logwriter")
  /\ res' = [res EXCEPT ![t] = R("IOError", NoVal, <<>>)]
  /\ lock' = Release(lock, t, {"index"})
  /\ pc' = [pc EXCEPT ![t] = "done"]
  /\ UNCHANGED <<phase, disk, wbuf, index, redundance_bytes, arg, loc, exp,
                 history, ncalls, nsess, open_res>>

\* kvs.rs:239: the flush made by seek(SeekFrom::End(0))? fails; the Rm command
\* stays in the buffer.
RmSeekFail(t) ==
  /\ phase = "up" /\ pc[t] = "rm_seek"
  /\ Free("logwriter")
  /\ res' = [res EXCEPT ![t] = R("IOError", NoVal, <<>>)]
  /\ lock' = Release(lock, t, {"index"})
  /\ pc' = [pc EXCEPT ![t] = "done"]
  /\ UNCHANGED <<phase, disk, wbuf, index, redundance_bytes, arg, loc, exp,
                 history, ncalls, nsess, open_res>>

NextIO ==
  \/ Next
  \/ \E t \in Threads :
       SetWriteFail(t) \/ SetSeekFail(t) \/ RmWriteFail(t) \/ RmSeekFail(t)

\* One handle on a disk whose writes can fail.
SpecIO == InitSeq /\ [][NextIO]_vars

\* open and get on a directory found as it is.
NextDir ==
  \/ Open
  \/ \E t \in Threads :
       \/ \E k \in ValidKeys : CallGet(t, k)
       \/ GetFlush(t) \/ GetLookup(t)
       \/ Return(t)

SpecDir == InitDir /\ [][NextDir]_vars

\* ================================================================ properties
\* Where a thread is blocked: the Mutex its next step locks.
WaitsFor(t) ==
  CASE pc[t] \in {"set_append", "get_flush", "rm_write", "rm_seek", "lc_flush"} -> "logwriter"
    [] pc[t] \in {"set_lock_red", "rm_account"} -> "redundance_bytes"
    [] pc[t] \in {"set_insert", "get_lookup", "scan_keys", "rm_lookup", "lc_copy", "drop_write"}
         -> "index"
    [] OTHER -> "none"

\* std::sync::Mutex is not reentrant: a thread that locks a Mutex it holds stays there.
SelfDeadlocked(t) == phase = "up" /\ WaitsFor(t) # "none" /\ lock[WaitsFor(t)] = t

\* The call of t waits for a Mutex whose holder will never release it.
NeverReturns(t) ==
  /\ phase = "up" /\ WaitsFor(t) # "none"
  /\ lock[WaitsFor(t)] \in Threads
  /\ SelfDeadlocked(lock[WaitsFor(t)])

Done(t) == phase = "up" /\ pc[t] = "done"
Range(sq) == {sq[i] : i \in 1..Len(sq)}

\* C1: after set(k, v) returned Ok a get(k) returns Some(v) until the next set or
\* remove of k, an overwrite makes it Some(v2), a key never set gives None, also
\* in sequences that trigger compaction: a get that returned gave the answer of
\* the abstract map, and a get of a live key is not left waiting for ever.
C1_GetReturnsLastSet ==
  \A t \in Threads :
    (phase = "up" /\ arg[t].op = "get") =>
      /\ pc[t] = "done" => res[t] = exp[t]
      /\ model[arg[t].key] # NoVal => ~NeverReturns(t)

\* C2: remove(k) of a key that is not live fails with KeyNotFound; of a live key
\* it returns Ok, after which get(k) is None and a second remove(k) fails with
\* KeyNotFound until k is set again.
C2_RemoveResult ==
  \A t \in Threads :
    (Done(t) /\ arg[t].op \in {"remove", "get"}) => res[t] = exp[t]

\* C3: after a clean close (every handle dropped) the reopened engine answers
\* every get(k) as the engine answered it when it was closed.
C3_ReopenAfterCleanClose ==
  [][(phase = "down" /\ last_end = "clean" /\ nsess' = nsess + 1) =>
       (phase' = "up" /\ open_res' = "Ok" /\ View(index', log') = prev_view)]_vars

C3_Witness ==
  /\ phase = "up" /\ nsess = 2 /\ last_end = "clean"
  /\ \A t \in Threads : pc[t] = "idle"
  /\ \E k \in ValidKeys : prev_view[k].kind = "Some" /\ View(index, log)[k] = prev_view[k]

\* C4: after a crash (no call in progress, no clean close) the reopened engine
\* answers get(k) with the result of the last operation on k that returned Ok,
\* also when the directory holds a snapshot written earlier.
C4_ReopenAfterCrash ==
  [][(phase = "down" /\ last_end = "crash" /\ nsess' = nsess + 1) =>
       (phase' = "up" /\ View(index', log') = ViewOf(truth))]_vars

\* C5: the two handles share one state, also when one of them compacts: a get or
\* scan through one handle that returned gave the answer of the map all Ok calls
\* of both handles built, and it is not left waiting behind the other handle.
C5_HandlesShareState ==
  \A u \in Threads :
    (phase = "up" /\ arg[u].op \in {"get", "scan"}) =>
      /\ pc[u] = "done" =>
           /\ res[u].kind = exp[u].kind /\ res[u].val = exp[u].val
           /\ Range(res[u].keys) = Range(exp[u].keys)
      /\ ~(NeverReturns(u) /\ lock[WaitsFor(u)] # u)

SetOk(t, k) == Done(t) /\ arg[t].op = "set" /\ arg[t].key = k /\ res[t].kind = "Ok"

C7_ConcurrentSetsOrdered ==
  \A t \in Threads, u \in Threads, k \in ValidKeys :
    (t # u /\ SetOk(t, k) /\ SetOk(u, k) /\ loc[t].pos <= loc[u].pos) =>
      /\ loc[t].pos < loc[u].pos
      /\ index[k] = CommandPos(loc[u].pos, loc[u].len)
      /\ get_result(index, log, k) = R("Some", arg[u].value, <<>>)

C7_Witness ==
  \E t \in Threads, u \in Threads, k \in ValidKeys :
    /\ t # u /\ SetOk(t, k) /\ SetOk(u, k)
    /\ loc[t].conc /\ arg[t].value # arg[u].value

\* C8: set fails with InvalidKeySize when the key is longer than 256 bytes and
\* with InvalidValueSize when the value is longer than 4096 bytes (the key is
\* checked first); a key of 256 bytes with a value of 4096 bytes is accepted.
C8_SizeLimits ==
  \A t \in Threads :
    (phase = "up" /\ arg[t].op = "set") =>
      /\ StrLen(arg[t].key) > 256 => (pc[t] = "done" /\ res[t].kind = "InvalidKeySize")
      /\ (StrLen(arg[t].key) <= 256 /\ StrLen(arg[t].value) > 4096) =>
           (pc[t] = "done" /\ res[t].kind = "InvalidValueSize")
      /\ (StrLen(arg[t].key) <= 256 /\ StrLen(arg[t].value) <= 4096) =>
           /\ res[t].kind \notin {"InvalidKeySize", "InvalidValueSize"}
           /\ pc[t] = "done" => res[t].kind = "Ok"

C8_Witness ==
  \E t \in Threads :
    /\ Done(t) /\ arg[t].op = "set" /\ res[t].kind = "Ok"
    /\ StrLen(arg[t].key) = 256 /\ StrLen(arg[t].value) = 4096

\* C9: scan returns exactly the keys for which get would return Some, each key
\* once, and the empty list when no key is live.
C9_ScanIsLiveKeys ==
  \A t \in Threads :
    (Done(t) /\ arg[t].op = "scan") =>
      /\ res[t].kind = "Keys"
      /\ Range(res[t].keys) = Range(exp[t].keys)
      /\ Len(res[t].keys) = Cardinality(Range(res[t].keys))

C9_Witness ==
  \E t \in Threads :
    /\ Done(t) /\ arg[t].op = "scan"
    /\ Range(res[t].keys) = ValidKeys

\* C10: an index snapshot that is damaged or truncated when the engine is opened
\* does not make open fail: the index is rebuilt from the log.
C10_DamagedSnapshotIsReplayed ==
  [][(phase = "down" /\ nsess' = nsess + 1 /\ index_file.exists
        /\ ~from_reader(index_file).ok) =>
       (phase' = "up" /\ open_res' = "Ok" /\ index' = replay(log, 1, EmptyIndex))]_vars

\* ================================================== SharedQueueThreadPool
\* src/src/thread_pool/shared_queue.rs.  A job is a closure; what the pool can
\* see of it is whether it returns or panics.

\* shared_queue.rs:12-30: assert!(threads > 0), one channel, `threads` threads,
\* each owning a JobReceiver; the JoinHandles of thread::spawn are discarded.
PoolNew(n) ==
  /\ pool.sender = "none"
  /\ n > 0
  /\ pool' = [sender |-> "alive", threads |-> n]
  /\ workers' = [w \in ThreadIds |-> IF w <= n THEN [st |-> "recv", job |-> 0] ELSE NoWorker]
  /\ UNCHANGED <<queue, jobs, engine_vars, server_vars, lib>>

\* shared_queue.rs:32-37: sender.send(Box::new(job)).unwrap().  Jobs are numbered
\* in the order they are sent.
PoolSpawn(j, panics) ==
  /\ pool.sender = "alive"
  /\ ~jobs[j].sent
  /\ \A i \in JobIds : i < j => jobs[i].sent
  /\ queue' = Append(queue, j)
  /\ jobs' = [jobs EXCEPT ![j] = [sent |-> TRUE, panics |-> panics, runs |-> 0]]
  /\ UNCHANGED <<pool, workers, engine_vars, server_vars, lib>>

\* shared_queue.rs:24 and 52: receiver.recv().  It returns the oldest job; with an
\* empty channel it blocks while the Sender lives and returns Err once it is
\* dropped, which ends the loop and the thread.
WorkerRecv(w) ==
  /\ workers[w].st = "recv"
  /\ IF queue # <<>>
     THEN /\ workers' = [workers EXCEPT ![w] = [st |-> "run", job |-> Head(queue)]]
          /\ queue' = Tail(queue)
     ELSE /\ pool.sender = "dropped"
          /\ workers' = [workers EXCEPT ![w] = [st |-> "exited", job |-> 0]]
          /\ UNCHANGED queue
  /\ UNCHANGED <<pool, jobs, engine_vars, server_vars, lib>>

\* shared_queue.rs:47-58: Drop for JobReceiver.  When the thread is panicking a
\* clone of the receiver goes to a new thread that runs the same loop.
receiver_drop_no_respawn(ws, panicking) == ws
receiver_drop(ws, panicking) ==
  IF panicking
  THEN LET fresh == CHOOSE w \in ThreadIds :
                      /\ ws[w].st = "none"
                      /\ \A v \in ThreadIds : ws[v].st = "none" => w <= v
       IN [ws EXCEPT ![fresh] = [st |-> "recv", job |-> 0]]
  ELSE ws

\* shared_queue.rs:25 and 53: job().  A panic unwinds the thread, which drops
\* the JobReceiver the closure owns.
WorkerRun(w) ==
  /\ workers[w].st = "run"
  /\ LET j == workers[w].job
     IN /\ jobs' = [jobs EXCEPT ![j].runs = @ + 1]
        /\ workers' =
             IF jobs[j].panics
             THEN receiver_drop([workers EXCEPT ![w] = [st |-> "panicked", job |-> 0]], TRUE)
             ELSE [workers EXCEPT ![w] = [st |-> "recv", job |-> 0]]
  /\ UNCHANGED <<pool, queue, engine_vars, server_vars, lib>>

\* SharedQueueThreadPool has no Drop impl (shared_queue.rs:7-9): dropping it drops
\* the Sender and returns.
PoolDrop ==
  /\ pool.sender = "alive"
  /\ pool' = [pool EXCEPT !.sender = "dropped"]
  /\ UNCHANGED <<queue, workers, jobs, engine_vars, server_vars, lib>>

NextPool ==
  \/ \E n \in 1..MaxWorkers : PoolNew(n)
  \/ \E j \in JobIds, panics \in BOOLEAN : PoolSpawn(j, panics)
  \/ \E w \in ThreadIds : WorkerRecv(w) \/ WorkerRun(w)
  \/ PoolDrop

\* Every thread that can take a step is scheduled eventually.
PoolFairness == \A w \in ThreadIds : WF_vars(WorkerRecv(w)) /\ WF_vars(WorkerRun(w))

SpecPool == Init /\ [][NextPool]_vars /\ PoolFairness

LiveWorkers == {w \in ThreadIds : workers[w].st \in {"recv", "run"}}
InQueue(j) == Cardinality({i \in 1..Len(queue) : queue[i] = j})
Running(j) == Cardinality({w \in ThreadIds : workers[w].st = "run" /\ workers[w].job = j})

\* C13: in a pool created with n > 0 workers, whichever jobs panic, the worker of
\* a panicking job is replaced by one draining the same queue (n threads stay at
\* work while the pool lives), a job sent is in the channel, being run or was
\* run, never twice, and every job sent is eventually run once.
C13_Safe ==
  /\ pool.sender = "alive" => Cardinality(LiveWorkers) = pool.threads /\ pool.threads > 0
  /\ \A j \in JobIds :
       /\ jobs[j].runs <= 1
       /\ jobs[j].sent => InQueue(j) + Running(j) + jobs[j].runs = 1
       /\ ~jobs[j].sent => InQueue(j) + Running(j) + jobs[j].runs = 0

C13_PanicsLoseNoJob ==
  /\ []C13_Safe
  /\ \A j \in JobIds : jobs[j].sent ~> (jobs[j].runs = 1)

C13_Witness ==
  /\ pool.threads = 1
  /\ \E i \in JobIds, j \in JobIds :
       /\ i < j /\ jobs[i].panics /\ jobs[i].runs = 1 /\ jobs[j].runs = 1
       /\ \E w \in ThreadIds : workers[w].st = "panicked"

\* C14: when the pool is dropped its threads are joined: once the drop is over
\* every worker thread has exited and the jobs that were queued have been run.
C14_DropJoinsWorkers ==
  pool.sender = "dropped" =>
    /\ LiveWorkers = {}
    /\ queue = <<>>
    /\ \A j \in JobIds : jobs[j].sent => jobs[j].runs = 1

\* C11: get never fails with KeyNotFound: a key without index entry gives None,
\* and an index entry whose range decodes to a command other than Set makes get
\* return a Corruption error.
PointsAtOther(k) ==
  /\ index[k] # NoPos
  /\ read_in_pos(log, index[k].pos, index[k].len).ok
  /\ read_in_pos(log, index[k].pos, index[k].len).cmd.t # "Set"

C11_GetNeverKeyNotFound ==
  \A t \in Threads :
    (Done(t) /\ arg[t].op = "get") =>
      /\ res[t].kind # "KeyNotFound"
      /\ index[arg[t].key] = NoPos => res[t].kind = "None"
      /\ PointsAtOther(arg[t].key) => res[t].kind = "Corruption"

\* C12: when the append of set or remove fails with an I/O error the call
\* returns the error and the index is what it was when the call began: set
\* inserted or replaced nothing, remove still has the entry of the key.
AppendFailed(t) ==
  /\ Done(t) /\ arg[t].op \in {"set", "remove"}
  /\ res[t].kind = "IOError" /\ loc[t].len = 0

C12_FailedAppendKeepsIndex ==
  \A t \in Threads : AppendFailed(t) => index = loc[t].before

\* ============================================================= kvs-server
\* bin/kvs-server.rs.  Text that the program inspects character by character
\* (the engine names) is a sequence of characters.
Text_kvs == <<"k", "v", "s">>
Text_sled == <<"s", "l", "e", "d">>
Text_auto == <<"a", "u", "t", "o">>
Text_auto_debug ==
  <<"a", "u", "t", "o", "m", "a", "t", "i", "c", "a", "l", "l", "y", " ",
    "s", "e", "l", "e", "c", "t", " ", "f", "r", "o", "m", " ",
    "k", "v", "s", " ", "o", "r", " ", "s", "l", "e", "d">>
BackEngines == {"Kvs", "Sled", "Auto"}

\* impl Debug for BackEngines (kvs-server.rs:41-49).
fmt_debug(e) ==
  CASE e = "Kvs" -> Text_kvs
    [] e = "Sled" -> Text_sled
    [] e = "Auto" -> Text_auto_debug

UpperCase == <<"A", "D", "E", "K", "L", "O", "S", "T", "U", "V">>
LowerCase == <<"a", "d", "e", "k", "l", "o", "s", "t", "u", "v">>
to_lowercase(s) ==
  [i \in 1..Len(s) |->
     IF \E j \in 1..Len(UpperCase) : UpperCase[j] = s[i]
     THEN LowerCase[CHOOSE j \in 1..Len(UpperCase) : UpperCase[j] = s[i]]
     ELSE s[i]]

\* impl FromStr for BackEngines (kvs-server.rs:27-39).
from_str(s) ==
  LET engine_name == to_lowercase(s)
  IN CASE engine_name = Text_kvs -> "Kvs"
       [] engine_name = Text_sled -> "Sled"
       [] engine_name = Text_auto -> "Auto"
       [] OTHER -> "ParseEngineError"

\* str::contains: needle occurs in hay as a substring.
contains_whole(hay, needle) == hay = needle
contains(hay, needle) ==
  \E i \in 0..(Len(hay) - Len(needle)) : SubSeq(hay, i + 1, i + Len(needle)) = needle

\* get_engine (kvs-server.rs:189-211).  exit: the process leaves with exit(1)
\* at line 198; file: the content of db.type afterwards.
get_engine(file, engine) ==
  IF file.exists
  THEN IF contains(fmt_debug(engine), file.text)
       THEN [exit |-> FALSE, engine |-> from_str(file.text), file |-> file]
       ELSE [exit |-> TRUE, engine |-> "none", file |-> file]
  ELSE LET e == IF engine = "Auto" THEN "Kvs" ELSE engine
       IN [exit |-> FALSE, engine |-> e, file |-> [exists |-> TRUE, text |-> fmt_debug(e)]]

\* KvsEngine::save_index_log (engines/mod.rs:22-25): the default body Ok(()),
\* which neither KvStore nor SledKvsEngine overrides.  The index file is left
\* as it is.
save_index_log(file, idx) == file

\* What a client sends: lines.  Line(s) is the text s followed by "\r\n";
\* ShortLine is a lone "\n"; EofLine is what read_line gives at end of stream.
Line(s) == [text |-> s, bytes |-> StrLen(s) + 2]
ShortLine == [text |-> "\n", bytes |-> 1]
EofLine == [text |-> "", bytes |-> 0]
Scripts ==
  { <<Line("SET"), Line("k1"), Line("v1")>>,
    <<Line("SET"), Line("kbig"), Line("v1")>>,
    <<Line("GET"), Line("k1")>>,
    <<Line("RM"), Line("k1")>>,
    <<Line("SCAN")>>,
    <<Line("FOO")>>,
    <<ShortLine>>,
    <<Line("GET")>>,
    <<>> }
nth_line(req, i) == IF i <= Len(req) THEN req[i] ELSE EofLine

\* read_line_from_stream (kvs-server.rs:163-168).  line.len() - 2 is a usize
\* subtraction: on a line shorter than two bytes it panics in a build with
\* overflow checks, and wraps in a build without them, where truncate to a
\* length beyond the end leaves the line as read.
read_line_from_stream(l, overflow_checks) ==
  IF l.bytes >= 2 THEN [panic |-> FALSE, line |-> l.text]
  ELSE IF overflow_checks THEN [panic |-> TRUE, line |-> ""]
  ELSE [panic |-> FALSE, line |-> l.text]

\* The reads and the match of get_response (kvs-server.rs:133-160).
Panicked == [panic |-> TRUE, op |-> "none", key |-> NoVal, value |-> NoVal]
Parsed(op, k, v) == [panic |-> FALSE, op |-> op, key |-> k, value |-> v]
parse_request(req, oc) ==
  LET cmd == read_line_from_stream(nth_line(req, 1), oc)
      a == read_line_from_stream(nth_line(req, 2), oc)
      b == read_line_from_stream(nth_line(req, 3), oc)
  IN IF cmd.panic THEN Panicked
     ELSE CASE cmd.line = "SET" ->
                 IF a.panic \/ b.panic THEN Panicked ELSE Parsed("set", a.line, b.line)
            [] cmd.line = "GET" -> IF a.panic THEN Panicked ELSE Parsed("get", a.line, NoVal)
            [] cmd.line = "RM" -> IF a.panic THEN Panicked ELSE Parsed("rm", a.line, NoVal)
            [] cmd.line = "SCAN" -> Parsed("scan", NoVal, NoVal)
            [] OTHER -> Parsed("bad", NoVal, NoVal)

\* One call of KvStore made by a handler: the results it can return and the
\* index and log it leaves.  The requests carry short values, so the bytes they
\* make redundant stay below REDUNDANCE_THRESHOLD and log_compact is not called.
kvs_call(p, idx, f) ==
  CASE p.op = "set" ->
         LET chk == set_validate(p.key, p.value)
             f2 == Append(f, SetCmd(p.key, p.value))
         IN IF chk # "Ok" THEN {[res |-> R(chk, NoVal, <<>>), index |-> idx, log |-> f]}
            ELSE {[res |-> R("Ok", NoVal, <<>>),
                   index |-> [idx EXCEPT ![p.key] = set_cmd_pos(file_size(f), file_size(f2))],
                   log |-> f2]}
    [] p.op = "get" -> {[res |-> get_result(idx, f, p.key), index |-> idx, log |-> f]}
    [] p.op = "rm" ->
         IF p.key \in ValidKeys /\ idx[p.key] # NoPos
         THEN {[res |-> R("Ok", NoVal, <<>>), index |-> index_remove(idx, p.key),
                log |-> Append(f, RmCmd(p.key))]}
         ELSE {[res |-> R("KeyNotFound", NoVal, <<>>), index |-> idx, log |-> f]}
    [] p.op = "scan" -> {[res |-> R("Keys", NoVal, ks), index |-> idx, log |-> f] :
                          ks \in scan_keys(idx)}
    [] OTHER -> {[res |-> R("CmdNotSupport", NoVal, <<>>), index |-> idx, log |-> f]}

\* One call of SledKvsEngine (engines/sled.rs:22-50): set checks no length;
\* scan lists the keys in the order of the tree.
SledOrder == <<"k1", "k2", "kbig">>
sled_call(p, db) ==
  CASE p.op = "set" ->
         [res |-> R("Ok", NoVal, <<>>), db |-> [db EXCEPT ![p.key] = p.value]]
    [] p.op = "get" ->
         [res |-> IF p.key \in DOMAIN db /\ db[p.key] # NoVal
                  THEN R("Some", db[p.key], <<>>) ELSE R("None", NoVal, <<>>),
          db |-> db]
    [] p.op = "rm" ->
         IF p.key \in DOMAIN db /\ db[p.key] # NoVal
         THEN [res |-> R("Ok", NoVal, <<>>), db |-> [db EXCEPT ![p.key] = NoVal]]
         ELSE [res |-> R("KeyNotFound", NoVal, <<>>), db |-> db]
    [] p.op = "scan" ->
         [res |-> R("Keys", NoVal, SelectSeq(SledOrder, LAMBDA k : db[k] # NoVal)), db |-> db]
    [] OTHER -> [res |-> R("CmdNotSupport", NoVal, <<>>), db |-> db]

\* impl Display for KvsError (error.rs:30-43).
ErrorKinds ==
  {"InvalidKeySize", "InvalidValueSize", "KeyNotFound", "CmdNotSupport", "IOError",
   "DeserError"}
Display(kind) ==
  CASE kind = "InvalidKeySize" -> "The key cannot be larger than 256B."
    [] kind = "InvalidValueSize" -> "The value cannot be larger than 4KB."
    [] kind = "KeyNotFound" -> "Key not found"
    [] kind = "CmdNotSupport" -> "Command not support."
    [] OTHER -> "inner"

\* kvs-server.rs:116: format!("Error\r\n{}\r\n", e), as the lines it holds.
error_response_no_message(kind) == <<"Error">>
error_response(kind) == <<"Error", Display(kind)>>

len_text(v) == CASE StrLen(v) = 0 -> "0" [] StrLen(v) = 2 -> "2" [] OTHER -> "n"

\* The response of the handler (kvs-server.rs:114-117 over 139-159).
response(p, r) ==
  IF r.kind \in ErrorKinds THEN error_response(r.kind)
  ELSE CASE r.kind = "Some" -> <<"Success", len_text(r.val), r.val>>
         [] r.kind = "None" -> <<"Success", "-1">>
         [] r.kind = "Keys" -> <<"Success">> \o (IF r.keys = <<>> THEN <<"">> ELSE r.keys)
         [] OTHER -> <<"Success">>

\* The process leaves: connections it has not finished are torn down.
InFlight == {"pending", "accepted", "dropping", "writing"}
process_exit(cn) ==
  [c \in ConnIds |-> IF cn[c].st \in InFlight THEN [cn[c] EXCEPT !.st = "reset"] ELSE cn[c]]

\* main (kvs-server.rs:64-89) up to the loop of run_server.
ServerStart(sel, oc) ==
  /\ server.pc \in {"off", "exited"}
  /\ server.starts < MaxStarts
  /\ LET g == get_engine(db_type, sel)
         o == open_index(index_file, log)
         base == [server EXCEPT !.sel = sel, !.found = db_type, !.overflow_checks = oc,
                                !.starts = @ + 1]
     IN /\ db_type' = g.file
        /\ IF g.exit
           THEN /\ server' = [base EXCEPT !.pc = "exited", !.engine = "none", !.code = 1,
                                          !.why = "mismatch"]
                /\ UNCHANGED index
           ELSE IF g.engine \notin {"Kvs", "Sled"}
           THEN /\ server' = [base EXCEPT !.pc = "exited", !.engine = "none",
                                !.code = IF g.engine = "Auto" THEN 1 ELSE 101,
                                !.why = "engine"]
                /\ UNCHANGED index
           ELSE IF g.engine = "Kvs" /\ ~o.ok
           THEN /\ server' = [base EXCEPT !.pc = "exited", !.engine = "Kvs", !.code = 1,
                                          !.why = "open"]
                /\ UNCHANGED index
           ELSE /\ server' = [base EXCEPT !.pc = "loop", !.engine = g.engine, !.code = -1,
                                          !.why = "none"]
                /\ index' = IF g.engine = "Kvs" THEN o.index ELSE index
  /\ ctrl_c_events' = 0
  /\ UNCHANGED <<handles, phase, log, wbuf, log_tmp, index_file, redundance_bytes, lock,
                 pc, arg, loc, res, exp, model, truth, ncalls, nsess, open_res, last_end,
                 prev_view, pool_vars, lib, sled_db, conn>>

\* A client connects and sends its request.
Connect(c, req) ==
  /\ server.pc = "loop"
  /\ conn[c].st = "none"
  /\ \A d \in ConnIds : d < c => conn[d].st # "none"
  /\ conn' = [conn EXCEPT ![c] = [NoConn EXCEPT !.st = "pending", !.req = req]]
  /\ UNCHANGED <<engine_vars, pool_vars, lib, server, db_type, sled_db, ctrl_c_events>>

\* The ctrlc handler sends into the channel (kvs-server.rs:213-219).
CtrlC ==
  /\ server.pc = "loop"
  /\ ctrl_c_events = 0
  /\ ctrl_c_events' = 1
  /\ UNCHANGED <<engine_vars, pool_vars, lib, server, db_type, sled_db, conn>>

\* kvs-server.rs:109-120: select! takes the default arm only when the channel
\* is empty; accept gives the oldest pending connection, the engine is cloned
\* and the handler is given a thread of its own (NaiveThreadPool).  `after`
\* remembers the connections that were finished by then.
Accept(c) ==
  /\ server.pc = "loop"
  /\ ctrl_c_events = 0
  /\ conn[c].st = "pending"
  /\ \A d \in ConnIds : d < c => conn[d].st # "pending"
  /\ conn' = [conn EXCEPT ![c].st = "accepted",
                           ![c].after = {d \in ConnIds : conn[d].st = "closed"}]
  /\ UNCHANGED <<engine_vars, pool_vars, lib, server, db_type, sled_db, ctrl_c_events>>

\* get_response (kvs-server.rs:131-161) in the handler's thread.
GetResponse(c) ==
  /\ server.pc = "loop"
  /\ conn[c].st = "accepted"
  /\ LET p == parse_request(conn[c].req, server.overflow_checks)
     IN IF p.panic
        THEN /\ conn' = [conn EXCEPT ![c].st = "dropping", ![c].panicked = TRUE]
             /\ UNCHANGED <<index, log, sled_db>>
        ELSE IF server.engine = "Kvs"
        THEN /\ \E o \in kvs_call(p, index, log) :
                  /\ index' = o.index
                  /\ log' = o.log
                  /\ conn' = [conn EXCEPT ![c].st = "dropping",
                                ![c].err = IF o.res.kind \in ErrorKinds THEN o.res.kind
                                           ELSE "none",
                                ![c].reply = response(p, o.res)]
             /\ UNCHANGED sled_db
        ELSE /\ LET o == sled_call(p, sled_db)
                IN /\ sled_db' = o.db
                   /\ conn' = [conn EXCEPT ![c].st = "dropping",
                                 ![c].err = IF o.res.kind \in ErrorKinds THEN o.res.kind
                                            ELSE "none",
                                 ![c].reply = response(p, o.res)]
             /\ UNCHANGED <<index, log>>
  /\ UNCHANGED <<handles, phase, wbuf, log_tmp, index_file, redundance_bytes, lock,
                 pc, arg, loc, res, exp, model, truth, ncalls, nsess, open_res, last_end,
                 prev_view, pool_vars, lib, server, db_type, ctrl_c_events>>

\* get_response returns or unwinds: its parameter `engine`, the clone made at
\* line 112, is dropped, and Drop for KvStore (kvs.rs:120-126) writes the index
\* file.  A handler that panicked drops the stream as well.
HandlerDrop(c) ==
  /\ server.pc = "loop"
  /\ conn[c].st = "dropping"
  /\ index_file' = IF server.engine = "Kvs" THEN to_writer(index) ELSE index_file
  /\ conn' = [conn EXCEPT ![c].st = IF conn[c].panicked THEN "closed" ELSE "writing"]
  /\ UNCHANGED <<handles, phase, log, wbuf, log_tmp, index, redundance_bytes, lock,
                 pc, arg, loc, res, exp, model, truth, ncalls, nsess, open_res, last_end,
                 prev_view, pool_vars, lib, server, db_type, sled_db, ctrl_c_events>>

\* kvs-server.rs:118: write_all, then the closure ends and drops the stream.
WriteResponse(c) ==
  /\ server.pc = "loop"
  /\ conn[c].st = "writing"
  /\ conn' = [conn EXCEPT ![c].st = "closed", ![c].resp = conn[c].reply]
  /\ UNCHANGED <<engine_vars, pool_vars, lib, server, db_type, sled_db, ctrl_c_events>>

\* kvs-server.rs:105-108: the notification is received, save_index_log is
\* called and the process leaves with exit(0), which runs no destructor.
Shutdown ==
  /\ server.pc = "loop"
  /\ ctrl_c_events > 0
  /\ ctrl_c_events' = ctrl_c_events - 1
  /\ index_file' = save_index_log(index_file, index)
  /\ server' = [server EXCEPT !.pc = "exited", !.code = 0, !.why = "shutdown"]
  /\ conn' = process_exit(conn)
  /\ UNCHANGED <<handles, phase, log, wbuf, log_tmp, index, redundance_bytes, lock,
                 pc, arg, loc, res, exp, model, truth, ncalls, nsess, open_res, last_end,
                 prev_view, pool_vars, lib, db_type, sled_db>>

\* kvs-server.rs:122-124: accept fails with an error other than WouldBlock;
\* run_server returns it, dropping `engine`, and main returns the Err.
ListenerError ==
  /\ server.pc = "loop"
  /\ ctrl_c_events = 0
  /\ index_file' = IF server.engine = "Kvs" THEN to_writer(index) ELSE index_file
  /\ server' = [server EXCEPT !.pc = "exited", !.code = 1, !.why = "listener"]
  /\ conn' = process_exit(conn)
  /\ UNCHANGED <<handles, phase, log, wbuf, log_tmp, index, redundance_bytes, lock,
                 pc, arg, loc, res, exp, model, truth, ncalls, nsess, open_res, last_end,
                 prev_view, pool_vars, lib, db_type, sled_db, ctrl_c_events>>

NextServer ==
  \/ \E sel \in BackEngines : \E oc \in BOOLEAN : ServerStart(sel, oc)
  \/ \E c \in ConnIds : \E req \in Scripts : Connect(c, req)
  \/ CtrlC
  \/ \E c \in ConnIds : Accept(c)
  \/ \E c \in ConnIds : GetResponse(c)
  \/ \E c \in ConnIds : HandlerDrop(c)
  \/ \E c \in ConnIds : WriteResponse(c)
  \/ Shutdown
  \/ ListenerError

ServerFairness ==
  /\ WF_vars(Shutdown)
  /\ \A c \in ConnIds :
       WF_vars(Accept(c)) /\ WF_vars(GetResponse(c)) /\ WF_vars(HandlerDrop(c))
       /\ WF_vars(WriteResponse(c))

SpecServer == InitSeq /\ [][NextServer]_vars /\ ServerFairness

\* ------------------------------------------------- properties of kvs-server
ResponseComplete(r) ==
  /\ Len(r) >= 1
  /\ \/ r[1] = "Success"
     \/ r[1] = "Error" /\ Len(r) = 2

\* C15: every accepted connection that the handler closes has been written one
\* complete response, a Success or an Error with its message line, whatever the
\* client sent: a well-formed request, an unknown command, a line shorter than
\* two bytes, fewer lines than the command needs, or nothing.
C15_EveryConnectionAnswered ==
  \A c \in ConnIds : conn[c].st = "closed" => ResponseComplete(conn[c].resp)

EngineErrors == {"InvalidKeySize", "InvalidValueSize", "KeyNotFound", "IOError", "DeserError"}

\* C16: a connection whose engine operation failed (RM of a missing key, SET
\* with an oversize key) is answered with an Error response carrying the message
\* of the error, and the accept loop goes on: the loop is left only by the step
\* that handles the shutdown notification or by the step of a listener error
\* other than would-block.
C16_FailedOperationAnswered ==
  /\ [](\A c \in ConnIds :
          conn[c].st = "closed" /\ conn[c].err \in EngineErrors =>
            /\ Len(conn[c].resp) = 2
            /\ conn[c].resp[1] = "Error"
            /\ conn[c].resp[2] = Display(conn[c].err))
  /\ [][server.pc = "loop" /\ server'.pc # "loop" => Shutdown \/ ListenerError]_vars

\* A connection accepted after one with a failed operation was closed has been
\* answered with Success by the same server process.
C16_Witness ==
  /\ server.starts = 1
  /\ conn[1].st = "closed" /\ conn[1].err \in EngineErrors
  /\ conn[2].st = "closed" /\ 1 \in conn[2].after
  /\ conn[2].resp # <<>> /\ conn[2].resp[1] = "Success"

\* C17: when the server has left because of the shutdown notification, its exit
\* status is 0 and, with the log engine, the index snapshot on disk equals the
\* in-memory index at exit.
C17_ShutdownSavesIndex ==
  server.pc = "exited" /\ server.why = "shutdown" =>
    /\ server.code = 0
    /\ server.engine = "Kvs" => index_file = to_writer(index)

EngineNamed(text) == CHOOSE e \in {"Kvs", "Sled"} : fmt_debug(e) = text

\* C18: engine selection.  In a fresh directory the selector auto gives kvs, an
\* explicit selector gives itself, and the chosen name is written to db.type.
\* With db.type present, the selector auto and the selector equal to the
\* recorded name open the recorded engine and leave db.type as it is; any other
\* selector makes the process exit with a non-zero status, no engine opened and
\* db.type unchanged.
C18_EngineSelection ==
  server.pc # "off" =>
    IF ~server.found.exists
    THEN /\ server.engine = (IF server.sel = "Auto" THEN "Kvs" ELSE server.sel)
         /\ db_type = [exists |-> TRUE,
                       text |-> IF server.engine = "Kvs" THEN <<"k", "v", "s">>
                                ELSE <<"s", "l", "e", "d">>]
    ELSE LET named == EngineNamed(server.found.text)
         IN IF server.sel \in {"Auto", named}
            THEN server.engine = named /\ db_type = server.found
            ELSE /\ server.pc = "exited"
                 /\ server.code > 0
                 /\ server.engine = "none"
                 /\ db_type = server.found

\* The second start, with the selector auto on a directory whose db.type names
\* sled, serves with sled.
C18_Witness ==
  /\ server.starts = 2
  /\ server.found = [exists |-> TRUE, text |-> <<"s", "l", "e", "d">>]
  /\ server.sel = "Auto"
  /\ server.pc = "loop" /\ server.engine = "Sled"

\* ------------------------------------------------- the index and the log
\* The value of the last Set record for k in the log f, NoVal when there is none.
RECURSIVE LastSetValue(_, _)
LastSetValue(f, k) ==
  IF f = <<>> THEN NoVal
  ELSE LET c == f[Len(f)]
       IN IF c.t = "Set" /\ c.key = k THEN c.value
          ELSE LastSetValue(SubSeq(f, 1, Len(f) - 1), k)

\* C19: while the store is open and no call is in progress, every index entry
\* (k, r) refers to a range of the log that holds exactly one Set record, whose
\* key is k and whose value is the last value set for k.
C19_IndexEntryIsLastSet ==
  (phase = "up" /\ Quiet) =>
    \A k \in ValidKeys :
      index[k] # NoPos =>
        LET r == read_in_pos(log, index[k].pos, index[k].len)
        IN /\ r.ok
           /\ r.cmd.t = "Set"
           /\ r.cmd.key = k
           /\ r.cmd.value = LastSetValue(log, k)

\* C20: while the store is open and no call is in progress, replaying the log
\* from its start gives the in-memory index; in particular a key that was
\* removed does not come back by a replay.
C20_ReplayGivesIndex ==
  (phase = "up" /\ Quiet) => replay(log, 1, EmptyIndex) = index

\* =================================================== the KvStore of lib.rs
\* The store of lib.rs has one owner (&mut self): a call runs from its start to
\* its return with nothing in between.  The file its reader and writer operate
\* on is "log" after open and "log.tmp" after a log_compact of the session.
lib_active(s) == IF s.active = "log" THEN s.log ELSE s.tmp

\* BufWriter::flush, also made by BufWriter::seek and by the drop of a BufWriter.
lib_flush(s) ==
  IF s.active = "log" THEN [s EXCEPT !.log = @ \o s.wbuf, !.wbuf = <<>>]
  ELSE [s EXCEPT !.tmp = @ \o s.wbuf, !.wbuf = <<>>]

\* What get answers for every key (get flushes the writer first, lib.rs:95).
lib_view(s) == View(s.index, lib_active(lib_flush(s)))

\* LogReader::read_raw_in_pos (lib.rs:301-306): read_exact fails when the file
\* ends before pos + len.
read_raw_in_pos(f, pos, len) ==
  LET whole == {r \in (1..Len(f)) \X (1..Len(f)) :
                  /\ r[1] <= r[2]
                  /\ offset_of(f, r[1]) = pos
                  /\ offset_of(f, r[2] + 1) = pos + len}
  IN IF pos + len > file_size(f) THEN [ok |-> FALSE, bytes |-> <<>>]
     ELSE IF whole = {} THEN [ok |-> TRUE, bytes |-> <<Raw(len)>>]
     ELSE LET r == CHOOSE r \in whole : TRUE
          IN [ok |-> TRUE, bytes |-> SubSeq(f, r[1], r[2])]

\* BufWriter::write_all: data that does not fit behind what is buffered makes
\* the buffer be written out first; data of at least the capacity is written
\* through.
bufwriter_write(file, buf, data) ==
  IF file_size(buf) + file_size(data) <= BufCap THEN [file |-> file, buf |-> buf \o data]
  ELSE IF file_size(data) >= BufCap THEN [file |-> file \o buf \o data, buf |-> <<>>]
  ELSE [file |-> file \o buf, buf |-> data]

\* lib.rs:217-224: the loop over index.iter_mut(), in the order `order`.
copy_keeps_pos(idx, k, head) == idx
copy_sets_pos(idx, k, head) == [idx EXCEPT ![k].pos = head]
RECURSIVE lib_copy(_, _, _, _, _, _, _)
lib_copy(f, idx, order, i, head, file, buf) ==
  IF i > Len(order) THEN [ok |-> TRUE, index |-> idx, file |-> file, buf |-> buf]
  ELSE LET k == order[i]
           r == read_raw_in_pos(f, idx[k].pos, idx[k].len)
           w == bufwriter_write(file, buf, r.bytes)
       IN IF ~r.ok THEN [ok |-> FALSE, index |-> idx, file |-> file, buf |-> buf]
          ELSE lib_copy(f, copy_sets_pos(idx, k, head), order, i + 1, head + idx[k].len,
                        w.file, w.buf)

\* KvStore::log_compact of lib.rs (205-231).  create_new fails when log.tmp
\* exists.  An Err of the loop returns with the entries visited so far already
\* moved and drops the new writer, which writes out its buffer.  At the end the
\* handles are replaced and "log" is removed; log.tmp is not renamed here.
lib_log_compact(s, order) ==
  LET s1 == lib_flush(s)
      c == lib_copy(lib_active(s1), s1.index, order, 1, 0, <<>>, <<>>)
  IN IF s1.has_tmp THEN [ok |-> FALSE, st |-> s1]
     ELSE IF ~c.ok
     THEN [ok |-> FALSE,
           st |-> [s1 EXCEPT !.has_tmp = TRUE, !.tmp = c.file \o c.buf, !.index = c.index]]
     ELSE [ok |-> TRUE,
           st |-> [s1 EXCEPT !.has_tmp = TRUE, !.tmp = c.file, !.wbuf = c.buf,
                             !.index = c.index, !.active = "tmp",
                             !.has_log = FALSE, !.log = <<>>]]

\* The tail of set and of remove: the threshold test and the call of
\* log_compact.  set resets the counter after an Ok (lib.rs:72-75); remove does
\* not (lib.rs:127-129).
lib_finish(s, op, k, reset) ==
  IF s.redundance_bytes < REDUNDANCE_THRESHOLD
  THEN {[s EXCEPT !.last = [NoLast EXCEPT !.op = op, !.key = k, !.kind = "Ok"]]}
  ELSE {LET c == lib_log_compact(s, order)
        IN [c.st EXCEPT
              !.redundance_bytes = IF c.ok /\ reset THEN 0 ELSE @,
              !.last = [NoLast EXCEPT !.op = op, !.key = k,
                          !.kind = IF c.ok THEN "Ok" ELSE "IOError",
                          !.lc = IF c.ok THEN "Ok" ELSE "Err",
                          !.pre = lib_view(s)]] :
        order \in SeqsOf(LiveKeys(s.index))}

LibMayCall == lib.up /\ lib.ncalls < MaxLibCalls

\* KvStore::open of lib.rs (156-203).
LibOpen ==
  /\ ~lib.up
  /\ lib.nsess < MaxLibSessions
  /\ LET f == IF lib.has_log THEN lib.log ELSE <<>>
         r == open_index(lib.index_file, f)
     IN lib' = [lib EXCEPT !.up = r.ok, !.has_log = TRUE, !.log = f, !.active = "log",
                           !.wbuf = <<>>, !.index = IF r.ok THEN r.index ELSE EmptyIndex,
                           !.redundance_bytes = 0, !.nsess = @ + 1,
                           !.last = [NoLast EXCEPT !.op = "open",
                                       !.kind = IF r.ok THEN "Ok" ELSE "DeserError"]]
  /\ UNCHANGED <<engine_vars, pool_vars, server_vars>>

\* KvStore::set of lib.rs (54-77).
LibSet(k, v) ==
  /\ LibMayCall
  /\ LET s0 == [lib EXCEPT !.ncalls = @ + 1]
         chk == set_validate(k, v)
         head == file_size(lib_active(lib_flush(s0)))
         s1 == IF s0.active = "log" THEN [lib_flush(s0) EXCEPT !.log = Append(@, SetCmd(k, v))]
               ELSE [lib_flush(s0) EXCEPT !.tmp = Append(@, SetCmd(k, v))]
         cmd_pos == set_cmd_pos(head, file_size(lib_active(s1)))
         s2 == [s1 EXCEPT !.index[k] = cmd_pos,
                          !.redundance_bytes =
                             IF s1.index[k] # NoPos THEN @ + s1.index[k].len ELSE @]
     IN IF chk # "Ok"
        THEN lib' = [s0 EXCEPT !.last = [NoLast EXCEPT !.op = "set", !.key = k, !.kind = chk]]
        ELSE lib' \in lib_finish(s2, "set", k, TRUE)
  /\ UNCHANGED <<engine_vars, pool_vars, server_vars>>

\* KvStore::get of lib.rs (94-106).
LibGet(k) ==
  /\ LibMayCall
  /\ LET s1 == lib_flush([lib EXCEPT !.ncalls = @ + 1])
         r == get_result(s1.index, lib_active(s1), k)
     IN lib' = [s1 EXCEPT !.last = [NoLast EXCEPT !.op = "get", !.key = k, !.kind = r.kind,
                                                  !.val = r.val]]
  /\ UNCHANGED <<engine_vars, pool_vars, server_vars>>

\* KvStore::remove of lib.rs (123-135): no Rm command is written.
LibRemove(k) ==
  /\ LibMayCall
  /\ LET s0 == [lib EXCEPT !.ncalls = @ + 1]
         s1 == [s0 EXCEPT !.index = index_remove(@, k),
                          !.redundance_bytes = @ + s0.index[k].len]
     IN IF k \in ValidKeys /\ s0.index[k] # NoPos
        THEN lib' \in lib_finish(s1, "remove", k, FALSE)
        ELSE lib' = [s0 EXCEPT !.last = [NoLast EXCEPT !.op = "remove", !.key = k,
                                                        !.kind = "KeyNotFound"]]
  /\ UNCHANGED <<engine_vars, pool_vars, server_vars>>

\* Drop for KvStore of lib.rs (234-245): the index file is written, an existing
\* log.tmp is renamed to log, then the fields are dropped and the BufWriter
\* writes what it holds to the file it has open.
LibDrop ==
  /\ lib.up
  /\ LET s1 == lib_flush(lib)
     IN lib' = [s1 EXCEPT !.up = FALSE, !.index_file = to_writer(lib.index),
                          !.has_log = TRUE,
                          !.log = IF s1.has_tmp THEN s1.tmp ELSE s1.log,
                          !.has_tmp = FALSE, !.tmp = <<>>, !.active = "log",
                          !.index = EmptyIndex, !.redundance_bytes = 0,
                          !.last = NoLast, !.view = lib_view(lib), !.end = "clean"]
  /\ UNCHANGED <<engine_vars, pool_vars, server_vars>>

\* The process dies: what the BufWriter holds is lost, the files stay.
LibCrash ==
  /\ lib.up
  /\ lib' = [lib EXCEPT !.up = FALSE, !.wbuf = <<>>, !.active = "log",
                        !.index = EmptyIndex, !.redundance_bytes = 0,
                        !.last = NoLast, !.view = lib_view(lib), !.end = "crash"]
  /\ UNCHANGED <<engine_vars, pool_vars, server_vars>>

NextLib ==
  \/ LibOpen
  \/ \E k \in Keys, v \in Values : LibSet(k, v)
  \/ \E k \in Keys : LibGet(k)
  \/ \E k \in Keys : LibRemove(k)
  \/ LibDrop
  \/ LibCrash

SpecLib == InitSeq /\ [][NextLib]_vars

\* ------------------------------------------------ properties of compaction
\* C21: whenever a compaction is performed, an index snapshot on disk has been
\* invalidated before the log is changed and is not written again before the
\* clean close: while a thread is in log_compact past the creation of log.tmp,
\* about to copy the live records, no index file exists.
C21_CompactionInvalidatesSnapshot ==
  \A t \in Threads : (phase = "up" /\ pc[t] = "lc_copy") => ~index_file.exists

\* C22: compaction changes no observable result.  When the last call ran
\* log_compact and it returned Ok, get answers for every key what it answered
\* right before log_compact was entered, and the keys of the index (the result
\* of scan) are the keys that were live then.
C22_CompactionKeepsResults ==
  (lib.up /\ lib.last.lc = "Ok") =>
    /\ lib_view(lib) = lib.last.pre
    /\ LiveKeys(lib.index) = {k \in ValidKeys : lib.last.pre[k].kind # "None"}

\* A compaction that returned Ok with two live keys.
C22_Witness ==
  /\ lib.up /\ lib.last.lc = "Ok"
  /\ \A k \in ValidKeys : lib.last.pre[k].kind = "Some"

\* C23: after every successful compaction, whether set or remove triggered it,
\* the redundancy counter is 0 when the triggering call has returned.
C23_CounterResetAfterCompaction ==
  (lib.up /\ lib.last.lc = "Ok") => lib.redundance_bytes = 0

\* C24: after a successful compaction the active log holds exactly one Set
\* record per live key and no Rm record, its size is the sum of the lengths of
\* the live index entries, and the index ranges are disjoint and contiguous
\* from offset 0.
C24_Ranges == {<<lib.index[k].pos, lib.index[k].pos + lib.index[k].len>> : k \in LiveKeys(lib.index)}

C24_CompactedLogIsExact ==
  (lib.up /\ lib.last.lc = "Ok") =>
    LET f == lib_active(lib_flush(lib))
        live == LiveKeys(lib.index)
    IN /\ \A i \in 1..Len(f) : f[i].t = "Set"
       /\ \A k \in live : Cardinality({i \in 1..Len(f) : f[i].key = k}) = 1
       /\ Len(f) = Cardinality(live)
       /\ \A k \in live : /\ read_in_pos(f, lib.index[k].pos, lib.index[k].len).ok
                          /\ read_in_pos(f, lib.index[k].pos, lib.index[k].len).cmd.key = k
       /\ Cardinality(C24_Ranges) = Cardinality(live)
       /\ \A r \in C24_Ranges : r[1] = 0 \/ \E q \in C24_Ranges : q[2] = r[1]
       /\ \A r \in C24_Ranges : r[2] = file_size(f) \/ \E q \in C24_Ranges : q[1] = r[2]

C24_Witness ==
  /\ lib.up /\ lib.last.lc = "Ok"
  /\ Cardinality(LiveKeys(lib.index)) = 2

\* A call of KvStore::log_compact of lib.rs (205-231) by itself, as code of the
\* crate can make it; `again` records that the call before it was a
\* log_compact that returned Ok.
LibCompact ==
  /\ LibMayCall
  /\ \E order \in SeqsOf(LiveKeys(lib.index)) :
       LET c == lib_log_compact([lib EXCEPT !.ncalls = @ + 1], order)
       IN lib' = [c.st EXCEPT !.last = [NoLast EXCEPT !.op = "compact",
                                          !.kind = IF c.ok THEN "Ok" ELSE "IOError",
                                          !.lc = IF c.ok THEN "Ok" ELSE "Err",
                                          !.pre = lib_view(lib),
                                          !.again = (lib.last.lc = "Ok")]]
  /\ UNCHANGED <<engine_vars, pool_vars, server_vars>>

NextLibDirect ==
  \/ NextLib
  \/ LibCompact

SpecLibDirect == InitSeq /\ [][NextLibDirect]_vars

\* C25: a compaction that directly follows a successful compaction of the same
\* session succeeds as well and leaves the bytes of the log and the index as
\* the first one produced them.
C25_SecondCompactionIsIdentity ==
  [][(lib.up /\ lib.last.lc = "Ok" /\ lib'.up /\ lib'.last.op = "compact" /\ lib'.last.again)
       => /\ lib'.last.lc = "Ok"
          /\ lib_active(lib_flush(lib')) = lib_active(lib_flush(lib))
          /\ lib'.index = lib.index]_vars

\* C26: when the process died after a compaction had removed the old log and
\* before log.tmp was renamed to log, and log.tmp holds the live records, the
\* next open gives every key the value it had before.
C26_OpenFinishesRename ==
  [][(/\ ~lib.up /\ lib.end = "crash" /\ ~lib.has_log /\ lib.has_tmp
      /\ \A k \in ValidKeys : lib.view[k].kind = "Some" =>
            \E i \in 1..Len(lib.tmp) : lib.tmp[i] = SetCmd(k, lib.view[k].val)
      /\ lib'.up)
       => lib_view(lib') = lib.view]_vars

\* C27: when the process died in a compaction that had created log.tmp and had
\* not removed the old log, the next open leaves no log.tmp behind, so that a
\* compaction of the new session can create it.
C27_OpenDiscardsLogTmp ==
  [][(phase = "down" /\ last_end = "crash_busy" /\ log_tmp /\ phase' = "up") => ~log_tmp']_vars

\* Bytes of the active log that no index entry refers to.
C28_Unreferenced == file_size(Flushed) - (index["k1"].len + index["k2"].len)

C29_LockOrder ==
  \A t \in Threads :
    /\ (phase = "up" /\ WaitsFor(t) = "index") =>
         (lock["logwriter"] # t /\ lock["logreader"] # t)
    /\ (phase = "up" /\ WaitsFor(t) = "logwriter") => lock["logreader"] # t

\* C30: with one thread, a set or remove that reaches the threshold runs the
\* compaction to its end and returns: the thread never asks for a lock that it
\* holds itself.
C30_CompactionReturns == \A t \in Threads : ~SelfDeadlocked(t)

\* C31: no deadlock among the threads that call set, get and remove through
\* clones of one engine: there are no two threads each of which waits for a
\* lock the other holds.
C31_NoCyclicWait ==
  \A t \in Threads, u \in Threads :
    ~(/\ phase = "up" /\ t # u
      /\ WaitsFor(t) # "none" /\ lock[WaitsFor(t)] = u
      /\ WaitsFor(u) # "none" /\ lock[WaitsFor(u)] = t)

\* C32: a compaction that fails, at the exclusive create of log.tmp or while a
\* record is copied, leaves the engine as it was: get returns for every key what
\* it returned before the failed compaction.
C32_FailedCompactionKeepsResults ==
  (lib.up /\ lib.last.lc = "Err") => lib_view(lib) = lib.last.pre

\* C33: the steps of a call that commits nothing (a set whose key or value is
\* too long, a remove of a key the index does not hold, a get, a scan) append
\* no record to the log and change neither the index nor the redundancy
\* counter.
C33_NonCommittingOpsChangeNothing ==
  [][\A t \in Threads :
       (/\ phase = "up" /\ phase' = "up" /\ pc'[t] # pc[t]
        /\ \/ arg'[t].op \in {"get", "scan"}
           \/ /\ arg'[t].op = "set"
              /\ StrLen(arg'[t].key) > MaxKeyLen \/ StrLen(arg'[t].value) > MaxValueLen
           \/ /\ arg'[t].op = "remove" /\ pc'[t] = "done" /\ res'[t].kind = "KeyNotFound")
       => /\ log' \o wbuf' = log \o wbuf
          /\ index' = index
          /\ redundance_bytes' = redundance_bytes]_vars

C33_Witness ==
  \E t \in Threads, u \in Threads :
    /\ t # u /\ LiveKeys(index) # {} /\ log # <<>>
    /\ Done(t) /\ arg[t].op = "set" /\ res[t].kind \in {"InvalidKeySize", "InvalidValueSize"}
    /\ Done(u) /\ arg[u].op \in {"get", "remove"} /\ res[u].kind \in {"Some", "KeyNotFound"}

\* C34: once every handle has been dropped, in whatever order the drops of the
\* clones interleave with each other and with the calls of the clones not yet
\* dropped, the index file is one complete snapshot of the final index.
C34_FinalSnapshotIsFinalIndex ==
  (phase = "down" /\ last_end = "clean") =>
    /\ from_reader(index_file).ok
    /\ from_reader(index_file).index = index
    /\ index_file = to_writer(index)

C34_Witness ==
  /\ phase = "down" /\ last_end = "clean"
  /\ index_file = to_writer(index)
  /\ LiveKeys(index) # {} /\ LiveKeys(index) # ValidKeys
  /\ Len(log) >= 3

\* ================================================================ kvs-client
\* src/src/bin/kvs-client.rs.  enum Command (60-65) as the record the server's
\* parse gives, so that the two can be compared.
ClientCmds ==
  {[op |-> "set", key |-> k, value |-> v] : k \in Keys, v \in {"v1", "vbig"}}
    \cup {[op |-> o, key |-> k, value |-> NoVal] : o \in {"get", "rm"}, k \in Keys}
    \cup {[op |-> "scan", key |-> NoVal, value |-> NoVal]}

\* request_to_server (kvs-client.rs:123-134): the frame, line by line.
request_to_server(cmd) ==
  CASE cmd.op = "set" -> <<Line("SET"), Line(cmd.key), Line(cmd.value)>>
    [] cmd.op = "get" -> <<Line("GET"), Line(cmd.key)>>
    [] cmd.op = "rm" -> <<Line("RM"), Line(cmd.key)>>
    [] cmd.op = "scan" -> <<Line("SCAN")>>

\* parse_response_to_string (kvs-client.rs:136-157) over the lines of the
\* response; every line is read by the client's read_line_from_stream
\* (kvs-client.rs:159-164), which is the server's.  The String returned is one
\* line of the response.
parse_response_to_string(reply, response_type, oc) ==
  LET read(i) == IF i <= Len(reply) THEN [panic |-> FALSE, line |-> reply[i]]
                 ELSE read_line_from_stream(EofLine, oc)
      Out(kind, text) == [kind |-> kind, text |-> text]
      then(l, o) == IF l.panic THEN Out("panic", NoVal) ELSE o
  IN then(read(1),
       IF read(1).line = "Success"
       THEN IF response_type = "GET"
            THEN then(read(2), IF read(2).line = "-1" THEN Out("Ok", "Key not found")
                               ELSE then(read(3), Out("Ok", read(3).line)))
            ELSE IF response_type = "SCAN" THEN then(read(2), Out("Ok", read(2).line))
            ELSE Out("Ok", "")
       ELSE IF read(1).line = "Error" THEN then(read(2), Out("Err", read(2).line))
       ELSE Out("Err", "Some unknown errors have occurred."))

\* main of kvs-client.rs (67-121): the second argument of parse_response_to_string.
response_type(cmd) ==
  CASE cmd.op = "set" -> "SET" [] cmd.op = "get" -> "GET" [] cmd.op = "rm" -> "RM"
    [] cmd.op = "scan" -> "SCAN"

\* The client connects and writes its frame.
WireSend(c, cmd) ==
  /\ conn[c].st = "none"
  /\ \A d \in ConnIds : d < c => conn[d].st # "none"
  /\ conn' = [conn EXCEPT ![c] = [NoConn EXCEPT !.st = "sent", !.cmd = cmd,
                                                 !.req = request_to_server(cmd)]]
  /\ UNCHANGED <<engine_vars, pool_vars, lib, server, db_type, sled_db, ctrl_c_events>>

\* The handler (kvs-server.rs:113-118) on a KvStore that holds the log f: the
\* request is parsed, the engine is called, the response is built and written.
WireServe(c, f, oc) ==
  /\ conn[c].st = "sent"
  /\ LET p == parse_request(conn[c].req, oc)
     IN /\ ~p.panic
        /\ \E o \in kvs_call(p, replay(f, 1, EmptyIndex), f) :
             conn' = [conn EXCEPT ![c].st = "served", ![c].res = o.res,
                                  ![c].reply = response(p, o.res),
                                  ![c].resp = response(p, o.res)]
  /\ UNCHANGED <<engine_vars, pool_vars, lib, server, db_type, sled_db, ctrl_c_events>>

\* The client reads the response (kvs-client.rs:72-118).
WireReceive(c, oc) ==
  /\ conn[c].st = "served"
  /\ conn' = [conn EXCEPT ![c].st = "read",
                ![c].out = parse_response_to_string(conn[c].resp, response_type(conn[c].cmd), oc)]
  /\ UNCHANGED <<engine_vars, pool_vars, lib, server, db_type, sled_db, ctrl_c_events>>

NextWire ==
  \/ \E c \in ConnIds : \E cmd \in ClientCmds : WireSend(c, cmd)
  \/ \E c \in ConnIds : \E f \in DirLogs : \E oc \in BOOLEAN : WireServe(c, f, oc)
  \/ \E c \in ConnIds : \E oc \in BOOLEAN : WireReceive(c, oc)

SpecWire == InitSeq /\ [][NextWire]_vars

\* C35: the frame of the client is parsed by the server into the client's
\* command, and the client reads from the response what the engine returned:
\* the value of a live key, Key not found for an absent one, the message of an
\* error, and for scan every live key (none as the empty line).
C35_WireRoundTrip ==
  \A c \in ConnIds :
    conn[c].st = "read" =>
      /\ \A oc \in BOOLEAN :
           LET p == parse_request(conn[c].req, oc)
           IN ~p.panic /\ [op |-> p.op, key |-> p.key, value |-> p.value] = conn[c].cmd
      /\ LET r == conn[c].res
             out == conn[c].out
         IN CASE r.kind = "Some" -> out = [kind |-> "Ok", text |-> r.val]
              [] r.kind = "None" -> out = [kind |-> "Ok", text |-> "Key not found"]
              [] r.kind \in ErrorKinds -> out = [kind |-> "Err", text |-> Display(r.kind)]
              [] r.kind = "Keys" ->
                   /\ out.kind = "Ok"
                   /\ r.keys = <<>> => out.text = ""
                   /\ \A i \in 1..Len(r.keys) : out.text = r.keys[i]
              [] OTHER -> out = [kind |-> "Ok", text |-> ""]

====
